---- MODULE Spec2Model ----
(***************************************************************************)
(* Chat summary plugin: the poster renderer (text wrapping, layout pass,   *)
(* paint pass, hourly chart) of src/core/summary_image_generator.py and    *)
(* of the older src/summary_image_generator.py that plugin.py imports.     *)
(*                                                                         *)
(* Text is a sequence of glyphs. The glyphs stand for the classes of       *)
(* characters the code tells apart: "W" a full-width CJK glyph, "a" a      *)
(* half-width latin glyph, " " a space (whitespace for str.strip), "\n"    *)
(* the newline str.split cuts at, and "q" the ASCII double quote that the  *)
(* quote cards put around the quoted content.                              *)
(***************************************************************************)
EXTENDS Integers, Sequences, FiniteSets, TLC

VARIABLES
    \* ---- _wrap_text called on its own (SpecWrap)
    wpc,                  \* "call" before the call, "done" after it
    wtext,                \* argument text
    wmax,                 \* argument max_width
    wfont,                \* argument font: [face, size]
    wlines,               \* the returned list of lines
    \* ---- _draw_hourly_chart called on its own (SpecChart)
    cpc,                  \* "call" / "done"
    hourly_data,          \* argument hourly_data: a dict hour -> count
    chart_coords,         \* argument coords: [y1, y2] (the x extent plays no part)
    bars,                 \* the 24 bars drawn: hour -> [bar_height, bar_y]
    \* ---- generate_summary_image (SpecCore, SpecLegacy)
    pc,                   \* position in generate_summary_image
    face,                 \* the font face _get_font loaded
    width,                \* argument width (None: WIDTH)
    summary_text,         \* argument summary_text
    user_titles,          \* argument user_titles: list of {name, title, reason}
    golden_quotes,        \* argument golden_quotes: list of {content, sender, reason}
    hourly_distribution,  \* argument hourly_distribution
    layout,               \* the heights of the layout pass
    measured,             \* the cards the layout pass measured: [sec, idx, card_height]
    y,                    \* the paint pass's vertical cursor
    painted,              \* the drawing calls made so far, in order
    assets,               \* the decoration files: name -> "ok" / "missing" / "broken"
    layers,               \* the layers composited onto the image so far, in order
    rng,                  \* the state of the process-wide random generator
    \* ---- _get_font called on its own (SpecFont)
    fpc,                  \* "call" / "done"
    font_files,           \* per candidate path: "missing" / "broken" / "ok"
    font_size,            \* argument size
    font_result,          \* [raised, path, size]: the font returned, or the error raised
    \* ---- the handlers of plugin.py (SpecCommand, SpecDaily)
    hpc,                  \* position in the handler
    cfg,                  \* the plugin configuration: [decoration, min_messages]
    chats,                \* the number of chats the handler has to serve
    cur,                  \* the chat being served (1-based)
    ev,                   \* what happened for the current chat so far
    os_bound,             \* whether the handler's local name `os` is bound
    img_path,             \* the handler's img_path: [kind, id]
    img_files,            \* the image files present under data/images
    exc,                  \* the exception the send block raised ("" for none)
    outbox,               \* the messages sent, in order: [chat, kind, body]
    result,               \* the handler's return value: [returned, success]
    raised_in,            \* the chats whose processing ended in the daily loop's per-chat handler
    \* ---- generate_summary_image called twice (SpecTwice)
    first,                \* what the first of the two calls produced
    \* ---- concurrent /summary handlers around the image file (SpecSave)
    jobs,                 \* per handler: [pc, name]: position and filename chosen
    disk,                 \* data/images: filename -> the handler whose image it holds (0: no file)
    \* ---- SummaryScheduler and the ON_START handler (SpecLoop, SpecStartStop)
    scheduler_started,    \* DailySummaryEventHandler._scheduler_started
    constructed,          \* how many SummaryScheduler objects were constructed
    start_calls,          \* how many calls of start() were made
    handlers,             \* per ON_START event: position of its execute coroutine
    stops,                \* per call of stop(): [pc, task]: position, the task it awaits
    is_running,           \* SummaryScheduler.is_running
    task,                 \* SummaryScheduler.task: index into tasks (0: None)
    last_execution_date,  \* SummaryScheduler.last_execution_date (NoDate: None)
    tasks,                \* the _schedule_loop tasks created: [pc, cancelled, until, date]
    clock,                \* wall clock in the configured timezone: [day, slot]
    time_str,             \* the configured auto_summary.time, split at ":"
    sched_enabled,        \* plugin.enabled and auto_summary.enabled
    runs                  \* the invocations of summary_generator: [task, date, done, outcome]

wrapVars   == <<wpc, wtext, wmax, wfont, wlines>>
chartVars  == <<cpc, hourly_data, chart_coords, bars>>
renderVars == <<pc, face, width, summary_text, user_titles, golden_quotes,
                hourly_distribution, layout, measured, y, painted, assets, layers, rng>>
fontVars   == <<fpc, font_files, font_size, font_result>>
plugVars   == <<hpc, cfg, chats, cur, ev, os_bound, img_path, img_files, exc,
                outbox, result, raised_in>>
twiceVars  == <<first>>
saveVars   == <<jobs, disk>>
schedVars  == <<scheduler_started, constructed, start_calls, handlers, stops, is_running,
                task, last_execution_date, tasks, clock, time_str, sched_enabled, runs>>
hostVars   == <<fontVars, plugVars, twiceVars, saveVars, schedVars>>
vars       == <<wrapVars, chartVars, renderVars, hostVars>>

(***************************************************************************)
(* Bounds of the model.                                                    *)
(***************************************************************************)
MaxLen == 4          \* longest text handed to _wrap_text on its own
MaxWidth == 6        \* largest max_width handed to _wrap_text on its own
WrapFontSize == 4    \* font size of the font handed to _wrap_text on its own
MaxKeys == 2         \* most keys of an hourly_data dict
MaxCount == 2        \* largest count of an hourly_data dict
MaxCards == 5        \* most title cards / quote cards supplied to a render
MaxRenders == 2      \* handlers that render concurrently
MaxNames == 3        \* values of uuid4().hex[:8] told apart
SlotsPerDay == 3     \* hours of a day told apart (the last one stands for 23)
MaxDays == 2         \* days after the first the clock runs through
MaxRuns == 3         \* most invocations of summary_generator followed
MaxEvents == 2       \* ON_START events delivered
MaxTasks == 2        \* most _schedule_loop tasks created
MaxStops == 2        \* calls of stop()

(***************************************************************************)
(* Layout constants.                                                       *)
(***************************************************************************)
WIDTH == 1200
PADDING == 70
CARD_PADDING == 45
CARD_SPACING == 35
SUBTITLE_SIZE == 32
TEXT_SIZE == 28
SMALL_SIZE == 24
DISPLAY_CAP == 4
BAR_COUNT == 24
MIN_BAR_HEIGHT == 3

NL == "\n"
SPACE == " "
QUOTE_MARK == "q"

Max(a, b) == IF a >= b THEN a ELSE b
Min(a, b) == IF a <= b THEN a ELSE b

Rep(c, n) == [i \in 1..n |-> c]

RECURSIVE SumSeq(_)
SumSeq(s) == IF s = <<>> THEN 0 ELSE Head(s) + SumSeq(Tail(s))

RECURSIVE Flatten(_)
Flatten(ss) == IF ss = <<>> THEN <<>> ELSE Head(ss) \o Flatten(Tail(ss))

\* Python's list[:n]
Take(s, n) == SubSeq(s, 1, Min(n, Len(s)))

(***************************************************************************)
(* Fonts. A font is [face, size]. The faces are the metrics a loaded font  *)
(* file can have: a CJK face whose line box is a little lower than the     *)
(* nominal size, a tighter one, and a face without outlines for the text   *)
(* (every bounding box empty).                                             *)
(***************************************************************************)
FontFaces == {"loose", "tight", "blank"}

Font(f, size) == [face |-> f, size |-> size]

\* advance of one glyph under font.getbbox
CharWidth(font, c) ==
    IF font.face = "blank" THEN 0
    ELSE CASE c = "W" -> font.size
           [] c = "a" -> font.size \div 2
           [] c = QUOTE_MARK -> font.size \div 2
           [] c = SPACE -> font.size \div 4
           [] OTHER -> 0

\* how often glyph c occurs in s
Count(s, c) == Cardinality({i \in 1..Len(s) : s[i] = c})

\* bbox[2] - bbox[0] of font.getbbox(s): the advances of the glyphs of s, added up
TextWidth(font, s) ==
    Count(s, "W") * CharWidth(font, "W") + Count(s, "a") * CharWidth(font, "a")
    + Count(s, QUOTE_MARK) * CharWidth(font, QUOTE_MARK)
    + Count(s, SPACE) * CharWidth(font, SPACE)
    + Count(s, NL) * CharWidth(font, NL)

\* font.getbbox('测试')[3] - font.getbbox('测试')[1]
LineHeight(font) ==
    CASE font.face = "loose" -> font.size - 2
      [] font.face = "tight" -> (font.size * 3) \div 4
      [] OTHER -> 0

(***************************************************************************)
(* _wrap_text                                                              *)
(***************************************************************************)
\* text.split('\n'): the pieces between consecutive newlines, always at least one
SplitLines(text) ==
    LET cuts == {i \in 1..Len(text) : text[i] = NL} \cup {0, Len(text) + 1}
        Cut(k) == CHOOSE x \in cuts : Cardinality({z \in cuts : z < x}) = k
    IN  [k \in 1..(Cardinality(cuts) - 1) |-> SubSeq(text, Cut(k - 1) + 1, Cut(k) - 1)]

\* not paragraph.strip()
IsBlank(paragraph) == \A i \in 1..Len(paragraph) : paragraph[i] = SPACE

\* the test on test_line: w <= max_width
FitsUsingCurrentLine(font, max_width, current_line, char) ==
    TextWidth(font, current_line) <= max_width

\* a wrap that also breaks in front of every space
FitsUnlessSpace(font, max_width, current_line, char) ==
    char # SPACE /\ TextWidth(font, current_line \o <<char>>) <= max_width

Fits(font, max_width, current_line, char) ==
    TextWidth(font, current_line \o <<char>>) <= max_width

\* the line started after a flush
RestartEmpty(char) == <<>>

Restart(char) == <<char>>

\* `for char in paragraph` from the i-th character on, with current_line and the
\* lines flushed so far; yields the lines of the paragraph
RECURSIVE WrapChars(_, _, _, _, _, _)
WrapChars(font, max_width, paragraph, i, current_line, lines) ==
    IF i > Len(paragraph)
    THEN IF current_line # <<>> THEN Append(lines, current_line) ELSE lines
    ELSE IF Fits(font, max_width, current_line, paragraph[i])
    THEN WrapChars(font, max_width, paragraph, i + 1,
                   current_line \o <<paragraph[i]>>, lines)
    ELSE WrapChars(font, max_width, paragraph, i + 1, Restart(paragraph[i]),
                   IF current_line # <<>> THEN Append(lines, current_line) ELSE lines)

\* the lines one paragraph adds to `lines`; the variant before it is a wrapper
\* that adds no line for a blank paragraph
WrapParagraphSkippingBlank(font, max_width, paragraph) ==
    IF IsBlank(paragraph) THEN <<>>
    ELSE WrapChars(font, max_width, paragraph, 1, <<>>, <<>>)

WrapParagraph(font, max_width, paragraph) ==
    IF IsBlank(paragraph) THEN << <<>> >>
    ELSE WrapChars(font, max_width, paragraph, 1, <<>>, <<>>)

RECURSIVE WrapParagraphs(_, _, _)
WrapParagraphs(font, max_width, paragraphs) ==
    IF paragraphs = <<>> THEN <<>>
    ELSE WrapParagraph(font, max_width, Head(paragraphs))
         \o WrapParagraphs(font, max_width, Tail(paragraphs))

WrapText(text, max_width, font) ==
    WrapParagraphs(font, max_width, SplitLines(text))

(***************************************************************************)
(* _get_font                                                               *)
(***************************************************************************)
\* len(FontConfig.FONT_PATHS)
FONT_PATH_COUNT == 7

FontPaths == 1..FONT_PATH_COUNT

\* what the file system holds at a candidate path: nothing, a file truetype
\* cannot load, or a loadable font
FontFileStates == {"missing", "broken", "ok"}

FontPathUsableIfExists(files, i) == files[i] # "missing"

\* os.path.exists(path) and ImageFont.truetype(path, size) does not raise
FontPathUsable(files, i) == files[i] = "ok"

\* the loop over FONT_PATHS from candidate i on; falling out of it raises
RECURSIVE GetFontFrom(_, _, _)
GetFontFrom(files, size, i) ==
    IF i > FONT_PATH_COUNT THEN [raised |-> "RuntimeError", path |-> 0, size |-> 0]
    ELSE IF FontPathUsable(files, i) THEN [raised |-> "", path |-> i, size |-> size]
    ELSE GetFontFrom(files, size, i + 1)

GetFont(files, size) == GetFontFrom(files, size, 1)

(***************************************************************************)
(* _draw_hourly_chart                                                      *)
(***************************************************************************)
RECURSIVE KeySets(_, _)
KeySets(hours, k) ==
    IF k = 0 THEN {{}}
    ELSE LET prev == KeySets(hours, k - 1)
         IN  prev \cup {S \cup {h} : S \in prev, h \in hours}

\* the dicts hour -> count with at most maxKeys keys
HourlyMaps(hours, maxKeys, maxCount) ==
    UNION {[D -> 0..maxCount] : D \in KeySets(hours, maxKeys)}

Hours == 0..(BAR_COUNT - 1)

MaxCountOfMin(hd) ==
    LET m == IF DOMAIN hd = {} THEN 1
             ELSE CHOOSE v \in {hd[h] : h \in DOMAIN hd} :
                      \A h \in DOMAIN hd : hd[h] >= v
    IN  IF m = 0 THEN 1 ELSE m

\* max(hourly_data.values()) if hourly_data else 1; 0 is replaced by 1
MaxCountOf(hd) ==
    LET m == IF DOMAIN hd = {} THEN 1
             ELSE CHOOSE v \in {hd[h] : h \in DOMAIN hd} :
                      \A h \in DOMAIN hd : hd[h] <= v
    IN  IF m = 0 THEN 1 ELSE m

\* hourly_data.get(hour, 0)
CountAt(hd, hour) == IF hour \in DOMAIN hd THEN hd[hour] ELSE 0

\* chart_height - label_height - value_label_space - 20
AvailableHeight(coords) == (coords.y2 - coords.y1) - 35 - 40 - 20

BarHeightNoFloor(available_height, count, max_count) ==
    IF max_count > 0 THEN (available_height * count) \div max_count ELSE 0

\* max(3, int(available_height * count / max_count)) if max_count > 0 else 3
BarHeight(available_height, count, max_count) ==
    IF max_count > 0
    THEN Max(MIN_BAR_HEIGHT, (available_height * count) \div max_count)
    ELSE MIN_BAR_HEIGHT

\* the loop `for hour in range(24)`: each bar's height and top
DrawBars(coords, hd) ==
    LET max_count == MaxCountOf(hd)
        available_height == AvailableHeight(coords)
    IN  [hour \in Hours |->
            LET bar_height == BarHeight(available_height, CountAt(hd, hour), max_count)
            IN  [count |-> CountAt(hd, hour),
                 bar_height |-> bar_height,
                 bar_y |-> coords.y1 + 40 + available_height - bar_height]]

\* the chart area generate_summary_image hands over, for a card whose top is at cardTop
ChartCoords(cardTop) ==
    [y1 |-> cardTop + CARD_PADDING, y2 |-> cardTop + 250 - CARD_PADDING]

NoBars == <<>>

(***************************************************************************)
(* generate_summary_image of src/core: the layout pass.                    *)
(***************************************************************************)
\* width - PADDING * 2 - CARD_PADDING * 2
CoreTextWidth(w) == w - PADDING * 2 - CARD_PADDING * 2

\* f'"{content}"'
Quoted(content) == <<QUOTE_MARK>> \o content \o <<QUOTE_MARK>>

\* any(hourly_distribution.values())
AnyCount(hd) == \E h \in DOMAIN hd : hd[h] # 0

LayoutChartIncludedIfNonEmpty(hd) == DOMAIN hd # {}

\* layout pass: hourly_distribution and any(hourly_distribution.values())
LayoutChartIncluded(hd) == DOMAIN hd # {} /\ AnyCount(hd)

\* paint pass: hourly_distribution and any(hourly_distribution.values())
PaintChartIncluded(hd) == DOMAIN hd # {} /\ AnyCount(hd)

\* CARD_PADDING * 2 + len(wrapped_lines) * (line_height + 18) + 80
CoreCardContentHeight(f, wrapped_lines) ==
    CARD_PADDING * 2 + Len(wrapped_lines) * (LineHeight(Font(f, TEXT_SIZE)) + 18) + 80

\* layout pass: user_titles[:4]
LayoutTitleItems(titles) == Take(titles, DISPLAY_CAP)

PaintTitleItemsUncapped(titles) == titles

\* paint pass: user_titles[:4]
PaintTitleItems(titles) == Take(titles, DISPLAY_CAP)

\* layout pass: golden_quotes[:4]
LayoutQuoteItems(quotes) == Take(quotes, DISPLAY_CAP)

\* paint pass: golden_quotes[:4]
PaintQuoteItems(quotes) == Take(quotes, DISPLAY_CAP)

\* layout pass: the height of one title card
LayoutTitleCardHeight(f, w, item) ==
    LET reason_lines == WrapText(item.reason, CoreTextWidth(w), Font(f, SMALL_SIZE))
    IN  Max(50 + LineHeight(Font(f, SUBTITLE_SIZE)) + 25
            + Len(reason_lines) * (LineHeight(Font(f, SMALL_SIZE)) + 8) + 30, 120)

\* paint pass: the height of one title card
PaintTitleCardHeight(f, w, item) ==
    LET reason_lines == WrapText(item.reason, CoreTextWidth(w), Font(f, SMALL_SIZE))
    IN  Max(50 + LineHeight(Font(f, SUBTITLE_SIZE)) + 25
            + Len(reason_lines) * (LineHeight(Font(f, SMALL_SIZE)) + 8) + 30, 120)

\* layout pass: the height of one quote card
LayoutQuoteCardHeight(f, w, item) ==
    LET quote_lines == WrapText(Quoted(item.content), CoreTextWidth(w), Font(f, TEXT_SIZE))
        reason_lines == WrapText(item.reason, CoreTextWidth(w), Font(f, SMALL_SIZE))
    IN  Max(50 + Len(quote_lines) * (LineHeight(Font(f, TEXT_SIZE)) + 12) + 50
            + Len(reason_lines) * (LineHeight(Font(f, SMALL_SIZE)) + 8) + 40, 200)

PaintQuoteCardHeightWithoutReason(f, w, item) ==
    LET quote_lines == WrapText(Quoted(item.content), CoreTextWidth(w), Font(f, TEXT_SIZE))
    IN  Max(50 + Len(quote_lines) * (LineHeight(Font(f, TEXT_SIZE)) + 12) + 50 + 40, 200)

\* paint pass: the height of one quote card
PaintQuoteCardHeight(f, w, item) ==
    LET quote_lines == WrapText(Quoted(item.content), CoreTextWidth(w), Font(f, TEXT_SIZE))
        reason_lines == WrapText(item.reason, CoreTextWidth(w), Font(f, SMALL_SIZE))
    IN  Max(50 + Len(quote_lines) * (LineHeight(Font(f, TEXT_SIZE)) + 12) + 50
            + Len(reason_lines) * (LineHeight(Font(f, SMALL_SIZE)) + 8) + 40, 200)

\* the cards a pass goes through: [sec, idx, card_height]
MeasureTitles(f, w, titles) ==
    LET items == LayoutTitleItems(titles)
    IN  [i \in 1..Len(items) |->
            [sec |-> "titles", idx |-> i,
             card_height |-> LayoutTitleCardHeight(f, w, items[i])]]

MeasureQuotes(f, w, quotes) ==
    LET items == LayoutQuoteItems(quotes)
    IN  [i \in 1..Len(items) |->
            [sec |-> "quotes", idx |-> i,
             card_height |-> LayoutQuoteCardHeight(f, w, items[i])]]

SumCards(ms) == SumSeq([i \in 1..Len(ms) |-> ms[i].card_height + CARD_SPACING])

\* titles_section_height
CoreTitlesSectionHeight(f, w, titles) ==
    IF titles # <<>> THEN 190 + SumCards(MeasureTitles(f, w, titles)) + 30 ELSE 0

CoreQuotesSectionHeightAlways(f, w, quotes) == 190 + SumCards(MeasureQuotes(f, w, quotes))

\* quotes_section_height
CoreQuotesSectionHeight(f, w, quotes) ==
    IF quotes # <<>> THEN 190 + SumCards(MeasureQuotes(f, w, quotes)) ELSE 0

\* the heights of the layout pass
CoreLayout(f, w, text, titles, quotes, hd) ==
    LET header_height == 300
        hourly_chart_height == IF LayoutChartIncluded(hd) THEN 440 ELSE 0
        wrapped_lines == WrapText(text, CoreTextWidth(w), Font(f, TEXT_SIZE))
        card_content_height == CoreCardContentHeight(f, wrapped_lines)
        summary_card_height == 40 + card_content_height + 50
        titles_section_height == CoreTitlesSectionHeight(f, w, titles)
        quotes_section_height == CoreQuotesSectionHeight(f, w, quotes)
        footer_height == 280
    IN  [header_height |-> header_height,
         hourly_chart_height |-> hourly_chart_height,
         card_content_height |-> card_content_height,
         summary_card_height |-> summary_card_height,
         titles_section_height |-> titles_section_height,
         quotes_section_height |-> quotes_section_height,
         footer_height |-> footer_height,
         total_height |-> header_height + hourly_chart_height + summary_card_height
                          + titles_section_height + quotes_section_height
                          + footer_height]

(***************************************************************************)
(* generate_summary_image of src/core: the paint pass. Every primitive     *)
(* composited onto the image is logged as [sec, idx, op, what, top,        *)
(* bottom]: the section, the card's index in it (0: the section itself),   *)
(* the kind of primitive and its vertical extent.                          *)
(***************************************************************************)
Op(sec, idx, op, what, top, bottom) ==
    [sec |-> sec, idx |-> idx, op |-> op, what |-> what, top |-> top, bottom |-> bottom]

\* one _draw_text_with_shadow per line, the first at y0, each `step` below the last;
\* with skipEmpty the empty lines advance the text cursor and draw nothing
TextOps(sec, idx, what, lines, y0, step, line_height, skipEmpty) ==
    LET all == [i \in 1..Len(lines) |->
                   [rec |-> Op(sec, idx, "text", what, y0 + (i - 1) * step,
                               y0 + (i - 1) * step + line_height),
                    drawn |-> ~skipEmpty \/ lines[i] # <<>>]]
        kept == SelectSeq(all, LAMBDA e : e.drawn)
    IN  [i \in 1..Len(kept) |-> kept[i].rec]

\* the header block: title, decorations, the one stats badge
CoreHeaderOps ==
    << Op("header", 0, "text", "title", 80, 80),
       Op("header", 0, "deco", "decoration1", 50, 50),
       Op("header", 0, "deco", "star", 60, 100),
       Op("header", 0, "deco", "star", 70, 110),
       Op("header", 0, "deco", "star", 140, 180),
       Op("header", 0, "deco", "star", 150, 190),
       Op("header", 0, "badge", "stats", 200, 200) >>

\* the chart block, with the cursor at y0 on entry
CoreChartOps(y0) ==
    << Op("chart", 0, "divider", "divider", y0 + 10, y0 + 10),
       Op("chart", 0, "section_title", "title", y0 + 40 + 20, y0 + 40 + 20),
       Op("chart", 0, "card", "card", y0 + 140, y0 + 140 + 250),
       Op("chart", 0, "corner_deco", "corner", y0 + 140, y0 + 140 + 250),
       Op("chart", 0, "chart", "bars", ChartCoords(y0 + 140).y1, ChartCoords(y0 + 140).y2) >>

\* the advance of the cursor over the summary card
SummaryAdvanceShort(card_content_height) == card_content_height

SummaryAdvance(card_content_height) == card_content_height + 50

\* the summary block, with the cursor at y0 on entry
CoreSummaryOps(f, w, text, card_content_height, y0) ==
    LET wrapped_lines == WrapText(text, CoreTextWidth(w), Font(f, TEXT_SIZE))
        line_height == LineHeight(Font(f, TEXT_SIZE))
        cy == y0 + 40
    IN  << Op("summary", 0, "divider", "divider", y0 + 10, y0 + 10),
           Op("summary", 0, "card", "card", cy, cy + card_content_height),
           Op("summary", 0, "corner_deco", "corner", cy, cy + card_content_height) >>
        \o TextOps("summary", 0, "summary", wrapped_lines, cy + CARD_PADDING + 20,
                   line_height + 18, line_height, TRUE)
        \o << Op("summary", 0, "deco", "sparkle", cy + 15, cy + 15 + 40),
              Op("summary", 0, "deco", "sparkle", cy + 15, cy + 15 + 40),
              Op("summary", 0, "deco", "sparkle", cy + card_content_height - 55,
                 cy + card_content_height - 55 + 40),
              Op("summary", 0, "deco", "sparkle", cy + card_content_height - 55,
                 cy + card_content_height - 55 + 40) >>

\* the advance of the cursor over one card of a card loop
CardAdvanceNoSpacing(card_height) == card_height

CardAdvance(card_height) == card_height + CARD_SPACING

\* one turn of the title card loop, with the cursor at cy
CoreTitleCardOps(f, w, item, idx, cy) ==
    LET reason_lines == WrapText(item.reason, CoreTextWidth(w), Font(f, SMALL_SIZE))
        reason_line_height == LineHeight(Font(f, SMALL_SIZE))
        title_line_height == LineHeight(Font(f, SUBTITLE_SIZE))
        card_height == PaintTitleCardHeight(f, w, item)
        content_y == cy + 35
    IN  << Op("titles", idx, "card", "card", cy, cy + card_height),
           Op("titles", idx, "corner_deco", "corner", cy, cy + card_height),
           Op("titles", idx, "deco", "icon", content_y - 5, content_y - 5 + 35),
           Op("titles", idx, "badge", "title", content_y - 3,
              content_y - 3 + title_line_height + 16),
           Op("titles", idx, "text", "name", content_y, content_y + title_line_height) >>
        \o TextOps("titles", idx, "reason", reason_lines,
                   content_y + title_line_height + 25, reason_line_height + 8,
                   reason_line_height, FALSE)

\* the title card loop from card idx on: the cursor it ends at and what it painted
RECURSIVE CoreTitleLoop(_, _, _, _, _)
CoreTitleLoop(f, w, items, idx, cy) ==
    IF idx > Len(items) THEN [y |-> cy, ops |-> <<>>]
    ELSE LET rest == CoreTitleLoop(f, w, items, idx + 1,
                         cy + CardAdvance(PaintTitleCardHeight(f, w, items[idx])))
         IN  [y |-> rest.y,
              ops |-> CoreTitleCardOps(f, w, items[idx], idx, cy) \o rest.ops]

\* one turn of the quote card loop, with the cursor at cy
CoreQuoteCardOps(f, w, item, idx, cy) ==
    LET quote_lines == WrapText(Quoted(item.content), CoreTextWidth(w), Font(f, TEXT_SIZE))
        reason_lines == WrapText(item.reason, CoreTextWidth(w), Font(f, SMALL_SIZE))
        quote_line_height == LineHeight(Font(f, TEXT_SIZE))
        reason_line_height == LineHeight(Font(f, SMALL_SIZE))
        card_height == PaintQuoteCardHeight(f, w, item)
        content_y == cy + 35
        sender_y == content_y + Len(quote_lines) * (quote_line_height + 12) + 20
    IN  << Op("quotes", idx, "card", "card", cy, cy + card_height),
           Op("quotes", idx, "deco", "quote", cy + 15, cy + 15 + 35),
           Op("quotes", idx, "corner_deco", "corner", cy, cy + card_height),
           Op("quotes", idx, "deco", "heart", cy + 20, cy + 20 + 45) >>
        \o TextOps("quotes", idx, "quote", quote_lines, content_y,
                   quote_line_height + 12, quote_line_height, FALSE)
        \o << Op("quotes", idx, "text", "sender", sender_y, sender_y + reason_line_height) >>
        \o TextOps("quotes", idx, "reason", reason_lines, sender_y + 40,
                   reason_line_height + 8, reason_line_height, FALSE)

RECURSIVE CoreQuoteLoop(_, _, _, _, _)
CoreQuoteLoop(f, w, items, idx, cy) ==
    IF idx > Len(items) THEN [y |-> cy, ops |-> <<>>]
    ELSE LET rest == CoreQuoteLoop(f, w, items, idx + 1,
                         cy + CardAdvance(PaintQuoteCardHeight(f, w, items[idx])))
         IN  [y |-> rest.y,
              ops |-> CoreQuoteCardOps(f, w, items[idx], idx, cy) \o rest.ops]

(***************************************************************************)
(* What a drawing call composites onto the image. _draw_colorful_card puts *)
(* down a shadow, the background and the border; a decoration is a glow    *)
(* and the icon on top of it, and nothing at all when its file is missing  *)
(* or cannot be opened.                                                    *)
(***************************************************************************)
AssetNames == {"decoration1", "decoration2", "decoration3", "decoration4",
               "star", "sparkle", "heart", "bubble", "corner", "quote"}

AllAssets(state) == [a \in AssetNames |-> state]

\* deco_icons[idx]: the icon of the idx-th title card
TitleIcons == <<"star", "sparkle", "heart", "bubble">>

AssetOf(call) ==
    IF call.what = "icon"
    THEN TitleIcons[IF call.idx \in 1..Len(TitleIcons) THEN call.idx ELSE 1]
    ELSE call.what

Layer(call, layer) ==
    [sec |-> call.sec, idx |-> call.idx, layer |-> layer, what |-> call.what,
     top |-> call.top, bottom |-> call.bottom]

\* os.path.exists(path) and Image.open(path).convert("RGBA") does not raise
AssetUsable(files, call) == files[AssetOf(call)] = "ok"

LayersOf(files, call) ==
    IF call.op = "card"
    THEN <<Layer(call, "shadow"), Layer(call, "fill"), Layer(call, "border")>>
    ELSE IF call.op = "deco"
    THEN IF AssetUsable(files, call)
         THEN <<Layer(call, "glow"), Layer(call, "icon")>>
         ELSE <<>>
    ELSE IF call.op = "corner_deco"
    THEN IF AssetUsable(files, call) THEN <<Layer(call, "corner")>> ELSE <<>>
    ELSE <<Layer(call, call.op)>>

\* a renderer that gives up the rest of a block at the first unusable file
RECURSIVE LayersUntilUnusable(_, _)
LayersUntilUnusable(files, calls) ==
    IF calls = <<>> THEN <<>>
    ELSE IF Head(calls).op \in {"deco", "corner_deco"} /\ ~AssetUsable(files, Head(calls))
    THEN <<>>
    ELSE LayersOf(files, Head(calls)) \o LayersUntilUnusable(files, Tail(calls))

Layers(files, calls) ==
    Flatten([i \in 1..Len(calls) |-> LayersOf(files, calls[i])])

\* the drawing calls the step adds; Layers gives the layers they composite, in order
NewlyPainted == SubSeq(painted', Len(painted) + 1, Len(painted'))

\* the generator state of a host that never seeded it
HostRng == [seed |-> "os", after |-> <<>>]

RANDOM_SEED == "42"

\* random.seed(42) and the draws of the background, whose bounds are the
\* canvas size; the variant before it draws without seeding
UnseededBackground(w, total_height) ==
    [seed |-> rng.seed, after |-> rng.after \o <<w, total_height>>]

SeededBackground(w, total_height) == [seed |-> RANDOM_SEED, after |-> <<w, total_height>>]

(***************************************************************************)
(* Idle values of the parts a specification does not exercise.             *)
(***************************************************************************)
NoLayout == [header_height |-> 0, hourly_chart_height |-> 0, card_content_height |-> 0,
             summary_card_height |-> 0, titles_section_height |-> 0,
             quotes_section_height |-> 0, footer_height |-> 0, total_height |-> 0]

WrapIdle ==
    /\ wpc = "idle" /\ wtext = <<>> /\ wmax = 0
    /\ wfont = Font("loose", 0) /\ wlines = <<>>

ChartIdle ==
    /\ cpc = "idle" /\ hourly_data = <<>>
    /\ chart_coords = ChartCoords(0) /\ bars = NoBars

NoFontResult == [raised |-> "", path |-> 0, size |-> 0]

FontIdle ==
    /\ fpc = "idle" /\ font_files = <<>> /\ font_size = 0 /\ font_result = NoFontResult

NoEv == [target |-> "-", msgs |-> 0, llm |-> "-", titles |-> <<>>, quotes |-> <<>>, render |-> "-",
         read |-> "-", send |-> "-", remove |-> "-", text |-> "-"]

NoPath == [kind |-> "unset", id |-> 0]

NoResult == [returned |-> FALSE, success |-> FALSE]

PlugIdle ==
    /\ hpc = "idle" /\ cfg = [decoration |-> "", min_messages |-> 0]
    /\ chats = 0 /\ cur = 0 /\ ev = NoEv /\ os_bound = FALSE
    /\ img_path = NoPath /\ img_files = {} /\ exc = ""
    /\ outbox = <<>> /\ result = NoResult /\ raised_in = {}

NoFirst == [width |-> 0, layout |-> NoLayout, measured |-> <<>>, painted |-> <<>>,
            rng |-> HostRng]

TwiceIdle == first = NoFirst

SaveIdle == jobs = <<>> /\ disk = <<>>

NoDate == -1

Midnight(day) == [day |-> day, slot |-> 0]

\* "23:00" stands in the last slot of the day
DefaultHour == SlotsPerDay - 1

Num(v) == [digits |-> TRUE, value |-> v]

Word == [digits |-> FALSE, value |-> 0]

DEFAULT_TIME == <<Num(DefaultHour), Num(0)>>

SchedIdle ==
    /\ scheduler_started = FALSE /\ constructed = 0 /\ start_calls = 0
    /\ handlers = <<>> /\ stops = <<>>
    /\ is_running = FALSE /\ task = 0 /\ last_execution_date = NoDate
    /\ tasks = <<>> /\ clock = Midnight(0) /\ time_str = DEFAULT_TIME
    /\ sched_enabled = FALSE /\ runs = <<>>

HostIdle == FontIdle /\ PlugIdle /\ TwiceIdle /\ SaveIdle /\ SchedIdle

RenderIdle ==
    /\ pc = "idle" /\ face = "loose" /\ width = WIDTH /\ summary_text = <<>>
    /\ user_titles = <<>> /\ golden_quotes = <<>> /\ hourly_distribution = <<>>
    /\ layout = NoLayout /\ measured = <<>> /\ y = 0 /\ painted = <<>>
    /\ assets = AllAssets("ok") /\ layers = <<>> /\ rng = HostRng

(***************************************************************************)
(* SpecWrap: _wrap_text on every text of up to MaxLen glyphs.              *)
(***************************************************************************)
WrapAlphabet == {"W", "a", SPACE, NL}

WrapTexts == UNION {[1..n -> WrapAlphabet] : n \in 0..MaxLen}

InitWrap ==
    /\ wpc = "call"
    /\ wtext \in WrapTexts
    /\ wmax \in 1..MaxWidth
    /\ wfont \in {Font(f, WrapFontSize) : f \in {"loose", "blank"}}
    /\ wlines = <<>>
    /\ ChartIdle /\ RenderIdle /\ HostIdle

CallWrapText ==
    /\ wpc = "call"
    /\ wlines' = WrapText(wtext, wmax, wfont)
    /\ wpc' = "done"
    /\ UNCHANGED <<wtext, wmax, wfont, chartVars, renderVars, hostVars>>

NextWrap == CallWrapText

SpecWrap == InitWrap /\ [][NextWrap]_vars

(***************************************************************************)
(* SpecChart: _draw_hourly_chart on every dict of up to MaxKeys hours.     *)
(***************************************************************************)
InitChart ==
    /\ cpc = "call"
    /\ hourly_data \in HourlyMaps(Hours, MaxKeys, MaxCount)
    /\ chart_coords \in {ChartCoords(440), ChartCoords(0)}
    /\ bars = NoBars
    /\ WrapIdle /\ RenderIdle /\ HostIdle

CallDrawHourlyChart ==
    /\ cpc = "call"
    /\ bars' = DrawBars(chart_coords, hourly_data)
    /\ cpc' = "done"
    /\ UNCHANGED <<hourly_data, chart_coords, wrapVars, renderVars, hostVars>>

NextChart == CallDrawHourlyChart

SpecChart == InitChart /\ [][NextChart]_vars

(***************************************************************************)
(* SpecFont: _get_font on every state of the seven candidate paths.        *)
(***************************************************************************)
InitFont ==
    /\ fpc = "call"
    /\ font_files \in [FontPaths -> FontFileStates]
    /\ font_size \in {TEXT_SIZE, SMALL_SIZE}
    /\ font_result = NoFontResult
    /\ WrapIdle /\ ChartIdle /\ RenderIdle /\ PlugIdle
    /\ TwiceIdle /\ SaveIdle /\ SchedIdle

CallGetFont ==
    /\ fpc = "call"
    /\ font_result' = GetFont(font_files, font_size)
    /\ fpc' = "done"
    /\ UNCHANGED <<font_files, font_size, wrapVars, chartVars, renderVars, plugVars,
                   twiceVars, saveVars, schedVars>>

NextFont == CallGetFont

SpecFont == InitFont /\ [][NextFont]_vars

(***************************************************************************)
(* The inputs of a render.                                                 *)
(***************************************************************************)
\* the default width, and a narrow poster on which short texts wrap
Widths == {WIDTH, 400}

\* summaries: empty; one line (two on the narrow poster); three paragraphs of
\* which the middle one is empty
SummaryTexts ==
    { <<>>, Rep("W", 8), <<"W", NL, NL, "a">> }

TitleCard(reason) == [name |-> <<"a">>, title |-> <<"W", "W">>, reason |-> reason]

\* title cards: a short reason, a longer one (two lines on the narrow poster),
\* an empty one
TitlePool == << TitleCard(Rep("W", 3)), TitleCard(Rep("W", 10)), TitleCard(<<>>) >>

QuoteCard(content, reason) ==
    [content |-> content, sender |-> <<"a">>, reason |-> reason]

\* quote cards: short content and reason; longer ones (two quote lines and three
\* reason lines on the narrow poster); empty ones
QuotePool == << QuoteCard(Rep("W", 2), Rep("W", 3)),
                QuoteCard(Rep("W", 8), Rep("W", 15)),
                QuoteCard(<<>>, <<>>) >>

\* the lists of 0..MaxCards cards that run through a pool from some offset
CardLists(pool) ==
    { [i \in 1..n |-> pool[((i + off) % Len(pool)) + 1]] :
          n \in 0..MaxCards, off \in 0..1 }

\* the empty dict, dicts of zero counts only, dicts with a non-zero count
RenderHourly == HourlyMaps({9}, 1, 1)

(***************************************************************************)
(* SpecCore: generate_summary_image of src/core, one action per block.     *)
(***************************************************************************)
InitCore ==
    /\ pc = "layout"
    /\ face \in FontFaces
    /\ width \in Widths
    /\ summary_text \in SummaryTexts
    /\ user_titles \in CardLists(TitlePool)
    /\ golden_quotes \in CardLists(QuotePool)
    /\ hourly_distribution \in RenderHourly
    /\ layout = NoLayout /\ measured = <<>> /\ y = 0 /\ painted = <<>>
    /\ assets = AllAssets("ok") /\ layers = <<>> /\ rng = HostRng
    /\ bars = NoBars /\ cpc = "idle" /\ hourly_data = <<>>
    /\ chart_coords = ChartCoords(0)
    /\ WrapIdle /\ HostIdle

renderInputs ==
    <<face, width, summary_text, user_titles, golden_quotes, hourly_distribution, assets>>

\* the layout pass and the allocation of the canvas
CoreLayoutPass ==
    /\ pc = "layout"
    /\ layout' = CoreLayout(face, width, summary_text, user_titles, golden_quotes,
                            hourly_distribution)
    /\ measured' = MeasureTitles(face, width, user_titles)
                   \o MeasureQuotes(face, width, golden_quotes)
    /\ pc' = "header"
    /\ UNCHANGED <<renderInputs, y, painted, layers, rng, wrapVars, chartVars, hostVars>>

\* background, title, decorations, stats badge; then y = header_height
CorePaintHeader ==
    /\ pc = "header"
    /\ painted' = painted \o CoreHeaderOps
    /\ y' = layout.header_height
    /\ pc' = "chart"
    /\ rng' = SeededBackground(width, layout.total_height)
    /\ layers' = layers \o Layers(assets, NewlyPainted)
    /\ UNCHANGED <<renderInputs, layout, measured, wrapVars, chartVars, hostVars>>

\* the hourly chart block, painted only for a dict with a non-zero count
CorePaintChart ==
    /\ pc = "chart"
    /\ IF PaintChartIncluded(hourly_distribution)
       THEN /\ painted' = painted \o CoreChartOps(y)
            /\ bars' = DrawBars(ChartCoords(y + 140), hourly_distribution)
            /\ y' = y + 40 + 100 + 250 + 50
       ELSE UNCHANGED <<painted, bars, y>>
    /\ pc' = "summary"
    /\ layers' = layers \o Layers(assets, NewlyPainted)
    /\ UNCHANGED <<renderInputs, layout, measured, rng, wrapVars,
                   cpc, hourly_data, chart_coords, hostVars>>

\* divider and summary card
CorePaintSummary ==
    /\ pc = "summary"
    /\ painted' = painted \o CoreSummaryOps(face, width, summary_text,
                                            layout.card_content_height, y)
    /\ y' = y + 40 + SummaryAdvance(layout.card_content_height)
    /\ pc' = "titles"
    /\ layers' = layers \o Layers(assets, NewlyPainted)
    /\ UNCHANGED <<renderInputs, layout, measured, rng, wrapVars, chartVars, hostVars>>

\* the title section: chrome and card loop, only for a non-empty list
CorePaintTitles ==
    /\ pc = "titles"
    /\ IF user_titles # <<>>
       THEN LET loop == CoreTitleLoop(face, width, PaintTitleItems(user_titles), 1,
                                      y + 40 + 150)
            IN  /\ painted' = painted
                        \o << Op("titles", 0, "divider", "divider", y + 10, y + 10),
                              Op("titles", 0, "section_title", "title", y + 70, y + 70),
                              Op("titles", 0, "deco", "decoration3", y + 50, y + 170),
                              Op("titles", 0, "deco", "decoration3", y + 50, y + 50) >>
                        \o loop.ops
                /\ y' = loop.y + 30
       ELSE UNCHANGED <<painted, y>>
    /\ pc' = "quotes"
    /\ layers' = layers \o Layers(assets, NewlyPainted)
    /\ UNCHANGED <<renderInputs, layout, measured, rng, wrapVars, chartVars, hostVars>>

\* the quote section: chrome and card loop, only for a non-empty list
CorePaintQuotes ==
    /\ pc = "quotes"
    /\ IF golden_quotes # <<>>
       THEN LET loop == CoreQuoteLoop(face, width, PaintQuoteItems(golden_quotes), 1,
                                      y + 40 + 150)
            IN  /\ painted' = painted
                        \o << Op("quotes", 0, "divider", "divider", y + 10, y + 10),
                              Op("quotes", 0, "section_title", "title", y + 70, y + 70),
                              Op("quotes", 0, "deco", "decoration4", y + 50, y + 170),
                              Op("quotes", 0, "deco", "decoration4", y + 50, y + 50),
                              Op("quotes", 0, "deco", "quote", y + 75, y + 125) >>
                        \o loop.ops
                /\ y' = loop.y
       ELSE UNCHANGED <<painted, y>>
    /\ pc' = "footer"
    /\ layers' = layers \o Layers(assets, NewlyPainted)
    /\ UNCHANGED <<renderInputs, layout, measured, rng, wrapVars, chartVars, hostVars>>

\* the bottom decorations, after y += 50
CorePaintFooter ==
    /\ pc = "footer"
    /\ painted' = painted
            \o << Op("footer", 0, "deco", "decoration2", y + 50 + 20, y + 50 + 20 + 180),
                  Op("footer", 0, "deco", "bubble", y + 50 + 20, y + 50 + 20 + 60),
                  Op("footer", 0, "deco", "bubble", y + 50 + 30, y + 50 + 30 + 60),
                  Op("footer", 0, "deco", "bubble", y + 50 + 100, y + 50 + 100 + 60),
                  Op("footer", 0, "deco", "bubble", y + 50 + 110, y + 50 + 110 + 60) >>
    /\ y' = y + 50
    /\ pc' = "done"
    /\ layers' = layers \o Layers(assets, NewlyPainted)
    /\ UNCHANGED <<renderInputs, layout, measured, rng, wrapVars, chartVars, hostVars>>

NextCore ==
    \/ CoreLayoutPass
    \/ CorePaintHeader
    \/ CorePaintChart
    \/ CorePaintSummary
    \/ CorePaintTitles
    \/ CorePaintQuotes
    \/ CorePaintFooter

SpecCore == InitCore /\ [][NextCore]_vars

(***************************************************************************)
(* SpecTwice: generate_summary_image called a second time with the         *)
(* arguments, fonts and decoration files of the first call.                *)
(***************************************************************************)
\* the second call: a new canvas and cursor; the process-wide generator is
\* in the state the first call left it in
RenderAgain ==
    /\ pc = "done" /\ first = NoFirst
    /\ first' = [width |-> width, layout |-> layout, measured |-> measured,
                 painted |-> painted, rng |-> rng]
    /\ pc' = "layout"
    /\ layout' = NoLayout /\ measured' = <<>> /\ y' = 0 /\ painted' = <<>>
    /\ layers' = <<>> /\ bars' = NoBars
    /\ UNCHANGED <<renderInputs, rng, cpc, hourly_data, chart_coords, wrapVars,
                   fontVars, plugVars, saveVars, schedVars>>

NextTwice ==
    \/ NextCore
    \/ RenderAgain

\* the renders of one process: one loaded font throughout
InitTwice == InitCore /\ face = "loose"

SpecTwice == InitTwice /\ [][NextTwice]_vars

(***************************************************************************)
(* SpecSave: handlers that render, send and clean up concurrently. A       *)
(* handler runs without interruption between two awaits: the render, the   *)
(* exists test and the read are one step, the awaited send is the next,    *)
(* the finally block the last.                                             *)
(***************************************************************************)
\* uuid.uuid4().hex[:8]: one of 16^8 values, drawn at random by every call
UuidNames == 1..MaxNames

Renders == 1..MaxRenders

InitSave ==
    /\ jobs = [i \in Renders |-> [pc |-> "render", name |-> 0]]
    /\ disk = [n \in UuidNames |-> 0]
    /\ WrapIdle /\ ChartIdle /\ RenderIdle /\ FontIdle /\ PlugIdle /\ TwiceIdle /\ SchedIdle

saveFrame == <<wrapVars, chartVars, renderVars, fontVars, plugVars, twiceVars, schedVars>>

\* generate_summary_image saves under the name it drew, whatever is there;
\* the handler reads the file back before its first await
SaveAndRead(i) ==
    /\ jobs[i].pc = "render"
    /\ \E n \in UuidNames :
          /\ disk' = [disk EXCEPT ![n] = i]
          /\ jobs' = [jobs EXCEPT ![i] = [pc |-> "send", name |-> n]]
    /\ UNCHANGED saveFrame

\* await self.send_custom("image", ...); await asyncio.sleep(2)
SendAwaited(i) ==
    /\ jobs[i].pc = "send"
    /\ jobs' = [jobs EXCEPT ![i].pc = "finally"]
    /\ UNCHANGED <<disk, saveFrame>>

\* finally: if os.path.exists(img_path): os.remove(img_path)
RemoveFile(i) ==
    /\ jobs[i].pc = "finally"
    /\ disk' = [disk EXCEPT ![jobs[i].name] = 0]
    /\ jobs' = [jobs EXCEPT ![i].pc = "done"]
    /\ UNCHANGED saveFrame

NextSave ==
    \/ \E i \in Renders : SaveAndRead(i)
    \/ \E i \in Renders : SendAwaited(i)
    \/ \E i \in Renders : RemoveFile(i)

SpecSave == InitSave /\ [][NextSave]_vars

(***************************************************************************)
(* SpecAssets: generate_summary_image of src/core with any of the          *)
(* decoration files missing or unreadable.                                 *)
(***************************************************************************)
\* the files an installation can damage without the others: in the mixed
\* family these are unreadable when unusable, the rest are missing
FragileAssets == {"decoration1", "decoration3", "star", "heart", "corner"}

AssetStates ==
    {[a \in AssetNames |-> IF a \in U THEN "ok" ELSE kind] :
        U \in SUBSET AssetNames, kind \in {"missing", "broken"}}
    \cup
    {[a \in AssetNames |-> IF a \in U THEN "ok"
                           ELSE IF a \in FragileAssets THEN "broken" ELSE "missing"] :
        U \in SUBSET AssetNames}

InitAssets ==
    /\ pc = "layout"
    /\ face = "loose"
    /\ width = 400
    /\ summary_text = Rep("W", 8)
    /\ \E withCards \in BOOLEAN :
          /\ user_titles = IF withCards THEN <<TitlePool[1], TitlePool[2]>> ELSE <<>>
          /\ golden_quotes = IF withCards THEN <<QuotePool[1]>> ELSE <<>>
    /\ hourly_distribution \in {<<>>, [h \in {9} |-> 1]}
    /\ layout = NoLayout /\ measured = <<>> /\ y = 0 /\ painted = <<>>
    /\ assets \in AssetStates /\ layers = <<>> /\ rng = HostRng
    /\ bars = NoBars /\ cpc = "idle" /\ hourly_data = <<>>
    /\ chart_coords = ChartCoords(0)
    /\ WrapIdle /\ HostIdle

SpecAssets == InitAssets /\ [][NextCore]_vars

(***************************************************************************)
(* generate_summary_image of src/summary_image_generator.py, the renderer  *)
(* plugin.py imports: layout pass and paint pass.                          *)
(***************************************************************************)
\* layout pass: width - PADDING * 2 - CARD_PADDING * 2 - 200 - 50
LegacyLayoutReasonWidth(w) == w - PADDING * 2 - CARD_PADDING * 2 - 200 - 50

\* CARD_PADDING * 2 + len(wrapped_lines) * (line_height + 15) + 80
LegacySummaryCardHeight(f, wrapped_lines) ==
    CARD_PADDING * 2 + Len(wrapped_lines) * (LineHeight(Font(f, TEXT_SIZE)) + 15) + 80

\* layout pass: 60 + 50 + len(reason_lines) * (28 + 8) + 30
LegacyLayoutTitleCardHeight(f, w, item) ==
    LET reason_lines == WrapText(item.reason, LegacyLayoutReasonWidth(w),
                                 Font(f, SMALL_SIZE))
    IN  60 + 50 + Len(reason_lines) * (28 + 8) + 30

\* layout pass: 50 + len(quote_lines) * (line_height + 12) + 50
\*              + len(reason_lines) * 32 + 40
LegacyLayoutQuoteCardHeight(f, w, item) ==
    LET quote_lines == WrapText(Quoted(item.content), CoreTextWidth(w), Font(f, TEXT_SIZE))
        reason_lines == WrapText(item.reason, CoreTextWidth(w), Font(f, SMALL_SIZE))
    IN  50 + Len(quote_lines) * (LineHeight(Font(f, TEXT_SIZE)) + 12) + 50
        + Len(reason_lines) * 32 + 40

LegacyMeasureTitles(f, w, titles) ==
    LET items == Take(titles, DISPLAY_CAP)
    IN  [i \in 1..Len(items) |->
            [sec |-> "titles", idx |-> i,
             card_height |-> LegacyLayoutTitleCardHeight(f, w, items[i])]]

LegacyMeasureQuotes(f, w, quotes) ==
    LET items == Take(quotes, DISPLAY_CAP)
    IN  [i \in 1..Len(items) |->
            [sec |-> "quotes", idx |-> i,
             card_height |-> LegacyLayoutQuoteCardHeight(f, w, items[i])]]

\* the heights of the layout pass
LegacyLayout(f, w, text, titles, quotes) ==
    LET header_height == 300
        wrapped_lines == WrapText(text, CoreTextWidth(w), Font(f, TEXT_SIZE))
        summary_card_height == LegacySummaryCardHeight(f, wrapped_lines)
        titles_section_height ==
            IF titles # <<>> THEN 150 + SumCards(LegacyMeasureTitles(f, w, titles)) ELSE 0
        quotes_section_height ==
            IF quotes # <<>> THEN 150 + SumCards(LegacyMeasureQuotes(f, w, quotes)) ELSE 0
        footer_height == 280
    IN  [header_height |-> header_height,
         hourly_chart_height |-> 0,
         card_content_height |-> summary_card_height,
         summary_card_height |-> summary_card_height,
         titles_section_height |-> titles_section_height,
         quotes_section_height |-> quotes_section_height,
         footer_height |-> footer_height,
         total_height |-> header_height + summary_card_height + titles_section_height
                          + quotes_section_height + footer_height]

\* the summary card, with the cursor at cy
LegacySummaryOps(f, w, text, summary_card_height, cy) ==
    LET wrapped_lines == WrapText(text, CoreTextWidth(w), Font(f, TEXT_SIZE))
        line_height == LineHeight(Font(f, TEXT_SIZE))
    IN  << Op("summary", 0, "card", "card", cy, cy + summary_card_height) >>
        \o TextOps("summary", 0, "summary", wrapped_lines, cy + CARD_PADDING + 20,
                   line_height + 15, line_height, TRUE)
        \o << Op("summary", 0, "deco", "sparkle", cy + 15, cy + 15 + 40),
              Op("summary", 0, "deco", "sparkle", cy + 15, cy + 15 + 40),
              Op("summary", 0, "deco", "sparkle", cy + summary_card_height - 55,
                 cy + summary_card_height - 55 + 40),
              Op("summary", 0, "deco", "sparkle", cy + summary_card_height - 55,
                 cy + summary_card_height - 55 + 40) >>

\* paint pass: max(50 + title_line_height + 25
\*                 + len(reason_lines) * (reason_line_height + 8) + 30, 120)
LegacyPaintTitleCardHeight(f, w, item) ==
    LET reason_lines == WrapText(item.reason, CoreTextWidth(w), Font(f, SMALL_SIZE))
    IN  Max(50 + LineHeight(Font(f, SUBTITLE_SIZE)) + 25
            + Len(reason_lines) * (LineHeight(Font(f, SMALL_SIZE)) + 8) + 30, 120)

\* paint pass: max(50 + len(quote_lines) * (quote_line_height + 12) + 50
\*                 + len(reason_lines) * (reason_line_height + 8) + 40, 200)
LegacyPaintQuoteCardHeight(f, w, item) ==
    LET quote_lines == WrapText(Quoted(item.content), CoreTextWidth(w), Font(f, TEXT_SIZE))
        reason_lines == WrapText(item.reason, CoreTextWidth(w), Font(f, SMALL_SIZE))
    IN  Max(50 + Len(quote_lines) * (LineHeight(Font(f, TEXT_SIZE)) + 12) + 50
            + Len(reason_lines) * (LineHeight(Font(f, SMALL_SIZE)) + 8) + 40, 200)

\* one turn of the title card loop, with the cursor at cy
LegacyTitleCardOps(f, w, item, idx, cy) ==
    LET reason_lines == WrapText(item.reason, CoreTextWidth(w), Font(f, SMALL_SIZE))
        reason_line_height == LineHeight(Font(f, SMALL_SIZE))
        title_line_height == LineHeight(Font(f, SUBTITLE_SIZE))
        card_height == LegacyPaintTitleCardHeight(f, w, item)
        content_y == cy + 35
    IN  << Op("titles", idx, "card", "card", cy, cy + card_height),
           Op("titles", idx, "deco", "icon", content_y - 5, content_y - 5 + 35),
           Op("titles", idx, "badge", "title", content_y - 3,
              content_y - 3 + title_line_height + 16),
           Op("titles", idx, "text", "name", content_y, content_y + title_line_height) >>
        \o TextOps("titles", idx, "reason", reason_lines,
                   content_y + title_line_height + 25, reason_line_height + 8,
                   reason_line_height, FALSE)

RECURSIVE LegacyTitleLoop(_, _, _, _, _)
LegacyTitleLoop(f, w, items, idx, cy) ==
    IF idx > Len(items) THEN [y |-> cy, ops |-> <<>>]
    ELSE LET rest == LegacyTitleLoop(f, w, items, idx + 1,
                         cy + LegacyPaintTitleCardHeight(f, w, items[idx]) + CARD_SPACING)
         IN  [y |-> rest.y,
              ops |-> LegacyTitleCardOps(f, w, items[idx], idx, cy) \o rest.ops]

\* one turn of the quote card loop, with the cursor at cy
LegacyQuoteCardOps(f, w, item, idx, cy) ==
    LET quote_lines == WrapText(Quoted(item.content), CoreTextWidth(w), Font(f, TEXT_SIZE))
        reason_lines == WrapText(item.reason, CoreTextWidth(w), Font(f, SMALL_SIZE))
        quote_line_height == LineHeight(Font(f, TEXT_SIZE))
        reason_line_height == LineHeight(Font(f, SMALL_SIZE))
        card_height == LegacyPaintQuoteCardHeight(f, w, item)
        content_y == cy + 35
        sender_y == content_y + Len(quote_lines) * (quote_line_height + 12) + 20
    IN  << Op("quotes", idx, "card", "card", cy, cy + card_height),
           Op("quotes", idx, "deco", "heart", cy + 20, cy + 20 + 45) >>
        \o TextOps("quotes", idx, "quote", quote_lines, content_y,
                   quote_line_height + 12, quote_line_height, FALSE)
        \o << Op("quotes", idx, "text", "sender", sender_y, sender_y + reason_line_height) >>
        \o TextOps("quotes", idx, "reason", reason_lines, sender_y + 40,
                   reason_line_height + 8, reason_line_height, FALSE)

RECURSIVE LegacyQuoteLoop(_, _, _, _, _)
LegacyQuoteLoop(f, w, items, idx, cy) ==
    IF idx > Len(items) THEN [y |-> cy, ops |-> <<>>]
    ELSE LET rest == LegacyQuoteLoop(f, w, items, idx + 1,
                         cy + LegacyPaintQuoteCardHeight(f, w, items[idx]) + CARD_SPACING)
         IN  [y |-> rest.y,
              ops |-> LegacyQuoteCardOps(f, w, items[idx], idx, cy) \o rest.ops]

(***************************************************************************)
(* SpecLegacy: that renderer, one action per block.                        *)
(***************************************************************************)
InitLegacy ==
    /\ pc = "layout"
    /\ face \in FontFaces
    /\ width \in Widths
    /\ summary_text \in SummaryTexts
    /\ user_titles \in CardLists(TitlePool)
    /\ golden_quotes \in CardLists(QuotePool)
    /\ hourly_distribution = <<>>
    /\ layout = NoLayout /\ measured = <<>> /\ y = 0 /\ painted = <<>>
    /\ assets = AllAssets("ok") /\ layers = <<>> /\ rng = HostRng
    /\ ChartIdle /\ WrapIdle /\ HostIdle

LegacyLayoutPass ==
    /\ pc = "layout"
    /\ layout' = LegacyLayout(face, width, summary_text, user_titles, golden_quotes)
    /\ measured' = LegacyMeasureTitles(face, width, user_titles)
                   \o LegacyMeasureQuotes(face, width, golden_quotes)
    /\ pc' = "header"
    /\ UNCHANGED <<renderInputs, y, painted, layers, rng, wrapVars, chartVars, hostVars>>

LegacyPaintHeader ==
    /\ pc = "header"
    /\ painted' = painted \o CoreHeaderOps
    /\ y' = layout.header_height
    /\ pc' = "summary"
    /\ rng' = SeededBackground(width, layout.total_height)
    /\ layers' = layers \o Layers(assets, NewlyPainted)
    /\ UNCHANGED <<renderInputs, layout, measured, wrapVars, chartVars, hostVars>>

LegacyPaintSummary ==
    /\ pc = "summary"
    /\ painted' = painted \o LegacySummaryOps(face, width, summary_text,
                                              layout.summary_card_height, y)
    /\ y' = y + layout.summary_card_height + 50
    /\ pc' = "titles"
    /\ layers' = layers \o Layers(assets, NewlyPainted)
    /\ UNCHANGED <<renderInputs, layout, measured, rng, wrapVars, chartVars, hostVars>>

LegacyPaintTitles ==
    /\ pc = "titles"
    /\ IF user_titles # <<>>
       THEN LET loop == LegacyTitleLoop(face, width, Take(user_titles, DISPLAY_CAP), 1,
                                        y + 150)
            IN  /\ painted' = painted
                        \o << Op("titles", 0, "section_title", "title", y + 30, y + 30),
                              Op("titles", 0, "deco", "decoration3", y + 10, y + 130),
                              Op("titles", 0, "deco", "decoration3", y + 10, y + 10) >>
                        \o loop.ops
                /\ y' = loop.y + 30
       ELSE UNCHANGED <<painted, y>>
    /\ pc' = "quotes"
    /\ layers' = layers \o Layers(assets, NewlyPainted)
    /\ UNCHANGED <<renderInputs, layout, measured, rng, wrapVars, chartVars, hostVars>>

LegacyPaintQuotes ==
    /\ pc = "quotes"
    /\ IF golden_quotes # <<>>
       THEN LET loop == LegacyQuoteLoop(face, width, Take(golden_quotes, DISPLAY_CAP), 1,
                                        y + 150)
            IN  /\ painted' = painted
                        \o << Op("quotes", 0, "section_title", "title", y + 30, y + 30),
                              Op("quotes", 0, "deco", "decoration4", y + 10, y + 130),
                              Op("quotes", 0, "deco", "decoration4", y + 10, y + 10) >>
                        \o loop.ops
                /\ y' = loop.y
       ELSE UNCHANGED <<painted, y>>
    /\ pc' = "footer"
    /\ layers' = layers \o Layers(assets, NewlyPainted)
    /\ UNCHANGED <<renderInputs, layout, measured, rng, wrapVars, chartVars, hostVars>>

LegacyPaintFooter ==
    /\ pc = "footer"
    /\ painted' = painted
            \o << Op("footer", 0, "deco", "decoration2", y + 50 + 20, y + 50 + 20 + 180),
                  Op("footer", 0, "deco", "bubble", y + 50 + 20, y + 50 + 20 + 60),
                  Op("footer", 0, "deco", "bubble", y + 50 + 30, y + 50 + 30 + 60),
                  Op("footer", 0, "deco", "bubble", y + 50 + 100, y + 50 + 100 + 60),
                  Op("footer", 0, "deco", "bubble", y + 50 + 110, y + 50 + 110 + 60) >>
    /\ y' = y + 50
    /\ pc' = "done"
    /\ layers' = layers \o Layers(assets, NewlyPainted)
    /\ UNCHANGED <<renderInputs, layout, measured, rng, wrapVars, chartVars, hostVars>>

NextLegacy ==
    \/ LegacyLayoutPass
    \/ LegacyPaintHeader
    \/ LegacyPaintSummary
    \/ LegacyPaintTitles
    \/ LegacyPaintQuotes
    \/ LegacyPaintFooter

SpecLegacy == InitLegacy /\ [][NextLegacy]_vars

(***************************************************************************)
(* plugin.py: what the two handlers share.                                 *)
(*                                                                         *)
(* The host's text channel (send_text, text_to_stream) delivers; the       *)
(* database, the LLM, the renderer, the file system and the image channel  *)
(* can each fail.                                                          *)
(***************************************************************************)
MaxMessages == 2
MaxChats == 2

\* an element of the list an analysis LLM call returned: a dict with some of
\* its keys, each holding a string, or something that is not a dict
Item(isdict, f) == [isdict |-> isdict, f |-> f]

GoodTitle == Item(TRUE, [name |-> "v", title |-> "v", reason |-> "v"])

GoodQuote == Item(TRUE, [content |-> "v", sender |-> "v", reason |-> "v"])

NotADict == Item(FALSE, <<>>)

\* what llm_api.generate_with_model returned for an analysis prompt: success,
\* and whether the text is a JSON list, other JSON, or no JSON at all
LlmJson(success, parsed, items) == [success |-> success, parsed |-> parsed, items |-> items]

TitleOutputs ==
    {LlmJson(FALSE, "invalid", <<>>),
     LlmJson(TRUE, "object", <<>>),
     LlmJson(TRUE, "list", <<GoodTitle>>),
     LlmJson(TRUE, "list", <<GoodTitle, Item(TRUE, [name |-> "v", title |-> "v"])>>),
     LlmJson(TRUE, "list", <<Item(TRUE, [name |-> "v", title |-> "v", reason |-> ""])>>),
     LlmJson(TRUE, "list", <<NotADict, GoodTitle>>)}

QuoteOutputs ==
    {LlmJson(TRUE, "invalid", <<>>),
     LlmJson(TRUE, "list", <<GoodQuote>>),
     LlmJson(TRUE, "list", <<Item(TRUE, [content |-> "v", reason |-> "v"])>>)}

\* _analyze_user_titles / _analyze_golden_quotes: [] unless the LLM succeeded
\* and its text parsed to a list, and then that list as it is
AnalyzeList(out) ==
    IF ~out.success THEN <<>>
    ELSE IF out.parsed = "list" THEN out.items
    ELSE <<>>

\* the outcomes of generate_summary_image(..., user_titles, golden_quotes): it
\* returns the path of the file it wrote ("ok"), returns None after a failed
\* save ("none"), or raises; item.get(...) raises on an item that is no dict
RenderOutcomes(titles, quotes) ==
    IF \/ \E i \in 1..Min(Len(titles), DISPLAY_CAP) : ~titles[i].isdict
       \/ \E i \in 1..Min(Len(quotes), DISPLAY_CAP) : ~quotes[i].isdict
    THEN {"raise"}
    ELSE {"ok", "none", "raise"}

PathOf(outcome, id) ==
    IF outcome = "ok" THEN [kind |-> "path", id |-> id] ELSE [kind |-> "none", id |-> 0]

\* the first statement of the send block that raises, if any:
\* os.path.exists(img_path), open/read, the image send
SendBlockException(bound, path, files, read, send) ==
    IF ~bound THEN "UnboundLocalError"
    ELSE IF path.kind = "none" THEN "TypeError"
    ELSE IF path.id \notin files THEN "FileNotFoundError"
    ELSE IF read = "fail" THEN "OSError"
    ELSE IF send = "fail" THEN "SendError"
    ELSE ""

\* the finally block gets as far as os.remove(img_path)
RemoveReached(bound, path, files) ==
    bound /\ path.kind = "path" /\ path.id \in files

AfterFinallyPropagating(raised, remove) ==
    IF raised # "" \/ remove = "fail" THEN "fallback" ELSE "return"

\* an exception of the send block leaves the finally block for the outer
\* except; one of the finally block itself is caught there and logged
AfterFinally(raised, remove) ==
    IF raised # "" THEN "fallback" ELSE "return"

AfterRenderRaisedSilently == "return"

\* generate_summary_image raised: the outer `except Exception`
AfterRenderRaised == "fallback"

Msg(chat, kind, body) == [chat |-> chat, kind |-> kind, body |-> body]

SUMMARY == "summary"

DAILY_PREFIX == "prefix"

LlmOutcomes == {"ok", "empty", "fail", "raise"}

\* _generate_summary / _generate_summary_for_chat: the stripped text, or None
SummaryOf(llm) == IF llm = "ok" THEN SUMMARY ELSE IF llm = "empty" THEN "" ELSE "None"

\* `if summary:`
Truthy(summary) == summary # "" /\ summary # "None"

(***************************************************************************)
(* SpecCommand: ChatSummaryCommand.execute, one /summary command.          *)
(***************************************************************************)
Decorations == {"", "custom"}

InitCommand ==
    /\ hpc = "cmd_start"
    /\ cfg \in [decoration : Decorations, min_messages : {0}]
    /\ chats = 1 /\ cur = 1 /\ ev = NoEv /\ os_bound = FALSE
    /\ img_path = NoPath /\ img_files = {} /\ exc = ""
    /\ outbox = <<>> /\ result = NoResult /\ raised_in = {}
    /\ WrapIdle /\ ChartIdle /\ RenderIdle /\ FontIdle
    /\ TwiceIdle /\ SaveIdle /\ SchedIdle

cmdFrame == <<cfg, chats, cur, raised_in, wrapVars, chartVars, renderVars, fontVars,
             twiceVars, saveVars, schedVars>>

\* the command pattern, the arguments and the time range
CmdParse ==
    /\ hpc = "cmd_start"
    /\ \E a \in {"usage", "bad_range", "group", "user"} :
          /\ ev' = [ev EXCEPT !.target = a]
          /\ IF a = "usage"
             THEN /\ outbox' = Append(outbox, Msg(cur, "text", <<"usage">>))
                  /\ result' = [returned |-> TRUE, success |-> TRUE]
                  /\ hpc' = "cmd_done"
             ELSE IF a = "bad_range"
             THEN /\ outbox' = Append(outbox, Msg(cur, "text", <<"bad_range">>))
                  /\ result' = [returned |-> TRUE, success |-> FALSE]
                  /\ hpc' = "cmd_done"
             ELSE /\ hpc' = "cmd_query"
                  /\ UNCHANGED <<outbox, result>>
    /\ UNCHANGED <<os_bound, img_path, img_files, exc, cmdFrame>>

\* _get_messages ([] also when the query raised), the notice for no messages
\* or the waiting notice
CmdGetMessages ==
    /\ hpc = "cmd_query"
    /\ \E n \in 0..MaxMessages :
          /\ ev' = [ev EXCEPT !.msgs = n]
          /\ IF n = 0
             THEN /\ outbox' = Append(outbox, Msg(cur, "text", <<"no_records">>))
                  /\ result' = [returned |-> TRUE, success |-> TRUE]
                  /\ hpc' = "cmd_done"
             ELSE /\ outbox' = Append(outbox, Msg(cur, "text", <<"wait">>))
                  /\ hpc' = "cmd_summary"
                  /\ UNCHANGED result
    /\ UNCHANGED <<os_bound, img_path, img_files, exc, cmdFrame>>

\* _generate_summary and `if summary: ... else:`
CmdGenerateSummary ==
    /\ hpc = "cmd_summary"
    /\ \E llm \in LlmOutcomes :
          /\ ev' = [ev EXCEPT !.llm = llm]
          /\ IF Truthy(SummaryOf(llm))
             THEN /\ hpc' = "cmd_analyze"
                  /\ UNCHANGED <<outbox, result>>
             ELSE /\ outbox' = Append(outbox, Msg(cur, "text", <<"failed">>))
                  /\ result' = [returned |-> TRUE, success |-> FALSE]
                  /\ hpc' = "cmd_done"
    /\ UNCHANGED <<os_bound, img_path, img_files, exc, cmdFrame>>

\* the analyses of a group summary and the decoration path: `import os` runs
\* only when summary.decoration_image_path is empty
CmdAnalyze ==
    /\ hpc = "cmd_analyze"
    /\ \E t \in TitleOutputs, q \in QuoteOutputs :
          ev' = [ev EXCEPT
                    !.titles = IF ev.target = "group" THEN AnalyzeList(t) ELSE <<>>,
                    !.quotes = IF ev.target = "group" THEN AnalyzeList(q) ELSE <<>>]
    /\ os_bound' = (cfg.decoration = "")
    /\ hpc' = "cmd_render"
    /\ UNCHANGED <<img_path, img_files, exc, outbox, result, cmdFrame>>

\* img_path = SummaryImageGenerator.generate_summary_image(...)
CmdRender ==
    /\ hpc = "cmd_render"
    /\ \E r \in RenderOutcomes(ev.titles, ev.quotes) :
          /\ ev' = [ev EXCEPT !.render = r]
          /\ IF r = "raise"
             THEN /\ hpc' = "cmd_" \o AfterRenderRaised
                  /\ UNCHANGED <<img_path, img_files>>
             ELSE /\ img_path' = PathOf(r, cur)
                  /\ img_files' = IF r = "ok" THEN img_files \cup {cur} ELSE img_files
                  /\ hpc' = "cmd_send"
    /\ UNCHANGED <<os_bound, exc, outbox, result, cmdFrame>>

\* the body of the inner try: exists, read, send_custom("image", ...)
CmdSendImage ==
    /\ hpc = "cmd_send"
    /\ \E read \in {"ok", "fail"}, send \in {"ok", "fail"} :
          LET raised == SendBlockException(os_bound, img_path, img_files, read, send)
              readDone == raised \in {"", "OSError", "SendError"}
              sendDone == raised \in {"", "SendError"}
          IN  /\ read = "fail" => send = "fail"
              /\ ~readDone => read = "fail"
              /\ ev' = [ev EXCEPT !.read = IF readDone THEN read ELSE "-",
                                  !.send = IF sendDone THEN send ELSE "-"]
              /\ exc' = raised
              /\ outbox' = IF raised = ""
                           THEN Append(outbox, Msg(cur, "image", <<"image">>))
                           ELSE outbox
    /\ hpc' = "cmd_finally"
    /\ UNCHANGED <<os_bound, img_path, img_files, result, cmdFrame>>

\* the finally block: remove the file if it exists, log what goes wrong
CmdFinally ==
    /\ hpc = "cmd_finally"
    /\ IF RemoveReached(os_bound, img_path, img_files)
       THEN \E rm \in {"ok", "fail"} :
               /\ ev' = [ev EXCEPT !.remove = rm]
               /\ img_files' = IF rm = "ok" THEN img_files \ {img_path.id} ELSE img_files
               /\ hpc' = "cmd_" \o AfterFinally(exc, rm)
       ELSE /\ hpc' = "cmd_" \o AfterFinally(exc, "-")
            /\ UNCHANGED <<ev, img_files>>
    /\ UNCHANGED <<os_bound, img_path, exc, outbox, result, cmdFrame>>

\* the outer except: send the summary as text
CmdFallback ==
    /\ hpc = "cmd_fallback"
    /\ outbox' = Append(outbox, Msg(cur, "text", <<SUMMARY>>))
    /\ hpc' = "cmd_return"
    /\ UNCHANGED <<ev, os_bound, img_path, img_files, exc, result, cmdFrame>>

\* return True, ...
CmdReturn ==
    /\ hpc = "cmd_return"
    /\ result' = [returned |-> TRUE, success |-> TRUE]
    /\ hpc' = "cmd_done"
    /\ UNCHANGED <<ev, os_bound, img_path, img_files, exc, outbox, cmdFrame>>

NextCommand ==
    \/ CmdParse
    \/ CmdGetMessages
    \/ CmdGenerateSummary
    \/ CmdAnalyze
    \/ CmdRender
    \/ CmdSendImage
    \/ CmdFinally
    \/ CmdFallback
    \/ CmdReturn

SpecCommand == InitCommand /\ [][NextCommand]_vars

(***************************************************************************)
(* SpecDaily: DailySummaryEventHandler._generate_daily_summaries, one run  *)
(* over the chats that have messages today.                                *)
(***************************************************************************)
InitDaily ==
    /\ hpc = "daily_start"
    /\ cfg \in [decoration : Decorations, min_messages : 0..MaxMessages]
    /\ chats \in 0..MaxChats
    /\ cur = 0 /\ ev = NoEv /\ os_bound = FALSE
    /\ img_path = NoPath /\ img_files = {} /\ exc = ""
    /\ outbox = <<>> /\ result = NoResult /\ raised_in = {}
    /\ WrapIdle /\ ChartIdle /\ RenderIdle /\ FontIdle
    /\ TwiceIdle /\ SaveIdle /\ SchedIdle

dailyFrame == <<cfg, chats, wrapVars, chartVars, renderVars, fontVars,
               twiceVars, saveVars, schedVars>>

\* the query for today's chats and the target_chats filter
DailyStart ==
    /\ hpc = "daily_start"
    /\ IF chats = 0
       THEN /\ hpc' = "daily_done"
            /\ result' = [returned |-> TRUE, success |-> TRUE]
            /\ UNCHANGED cur
       ELSE /\ hpc' = "daily_query"
            /\ cur' = 1
            /\ UNCHANGED result
    /\ UNCHANGED <<ev, os_bound, img_path, img_files, exc, outbox, raised_in, dailyFrame>>

\* _get_messages_for_chat ([] also when the query raised) and the
\* min_messages test
DailyGetMessages ==
    /\ hpc = "daily_query"
    /\ \E n \in 0..MaxMessages :
          /\ ev' = [ev EXCEPT !.target = "group", !.msgs = n]
          /\ hpc' = IF n < cfg.min_messages THEN "daily_next" ELSE "daily_summary"
    /\ UNCHANGED <<cur, os_bound, img_path, img_files, exc, outbox, result, raised_in, dailyFrame>>

\* _generate_summary_for_chat and `if summary: ... else: logger.warning`
DailyGenerateSummary ==
    /\ hpc = "daily_summary"
    /\ \E llm \in LlmOutcomes :
          /\ ev' = [ev EXCEPT !.llm = llm]
          /\ hpc' = IF Truthy(SummaryOf(llm)) THEN "daily_analyze" ELSE "daily_next"
    /\ UNCHANGED <<cur, os_bound, img_path, img_files, exc, outbox, result, raised_in, dailyFrame>>

\* the analyses and the decoration path: `import os` runs only when
\* summary.decoration_image_path is empty, and stays bound for later chats
DailyAnalyze ==
    /\ hpc = "daily_analyze"
    /\ \E t \in TitleOutputs, q \in QuoteOutputs :
          ev' = [ev EXCEPT !.titles = AnalyzeList(t), !.quotes = AnalyzeList(q)]
    /\ os_bound' = (os_bound \/ cfg.decoration = "")
    /\ hpc' = "daily_render"
    /\ UNCHANGED <<cur, img_path, img_files, exc, outbox, result, raised_in, dailyFrame>>

\* img_path = SummaryImageGenerator.generate_summary_image(...)
DailyRender ==
    /\ hpc = "daily_render"
    /\ \E r \in RenderOutcomes(ev.titles, ev.quotes) :
          /\ ev' = [ev EXCEPT !.render = r]
          /\ IF r = "raise"
             THEN /\ hpc' = "daily_" \o AfterRenderRaised
                  /\ UNCHANGED <<img_path, img_files>>
             ELSE /\ img_path' = PathOf(r, cur)
                  /\ img_files' = IF r = "ok" THEN img_files \cup {cur} ELSE img_files
                  /\ hpc' = "daily_send"
    /\ UNCHANGED <<cur, os_bound, exc, outbox, result, raised_in, dailyFrame>>

\* the body of the inner try: exists, read, send_api.image_to_stream
DailySendImage ==
    /\ hpc = "daily_send"
    /\ \E read \in {"ok", "fail"}, send \in {"ok", "fail"} :
          LET raised == SendBlockException(os_bound, img_path, img_files, read, send)
              readDone == raised \in {"", "OSError", "SendError"}
              sendDone == raised \in {"", "SendError"}
          IN  /\ read = "fail" => send = "fail"
              /\ ~readDone => read = "fail"
              /\ ev' = [ev EXCEPT !.read = IF readDone THEN read ELSE "-",
                                  !.send = IF sendDone THEN send ELSE "-"]
              /\ exc' = raised
              /\ outbox' = IF raised = ""
                           THEN Append(outbox, Msg(cur, "image", <<"image">>))
                           ELSE outbox
    /\ hpc' = "daily_finally"
    /\ UNCHANGED <<cur, os_bound, img_path, img_files, result, raised_in, dailyFrame>>

\* the finally block: remove the file if it exists, log what goes wrong
DailyFinally ==
    /\ hpc = "daily_finally"
    /\ IF RemoveReached(os_bound, img_path, img_files)
       THEN \E rm \in {"ok", "fail"} :
               /\ ev' = [ev EXCEPT !.remove = rm]
               /\ img_files' = IF rm = "ok" THEN img_files \ {img_path.id} ELSE img_files
               /\ hpc' = IF AfterFinally(exc, rm) = "fallback"
                         THEN "daily_fallback" ELSE "daily_next"
       ELSE /\ hpc' = IF AfterFinally(exc, "-") = "fallback"
                      THEN "daily_fallback" ELSE "daily_next"
            /\ UNCHANGED <<ev, img_files>>
    /\ UNCHANGED <<cur, os_bound, img_path, exc, outbox, result, raised_in, dailyFrame>>

\* the per-chat `except Exception` skipped: the exception ends the loop and
\* is caught by the handler around the whole run
AfterChatRaisedAborts == "abort"

\* line 974: `except Exception` inside the loop over the chats
AfterChatRaised == "next"

\* the except of the image block: send the title line and the summary as
\* text, which may raise in its turn
DailyFallback ==
    /\ hpc = "daily_fallback"
    /\ \E text \in {"ok", "fail"} :
          /\ ev' = [ev EXCEPT !.text = text]
          /\ IF text = "ok"
             THEN /\ outbox' = Append(outbox, Msg(cur, "text", <<DAILY_PREFIX, SUMMARY>>))
                  /\ hpc' = "daily_next"
             ELSE /\ hpc' = "daily_raised"
                  /\ UNCHANGED outbox
    /\ UNCHANGED <<cur, os_bound, img_path, img_files, exc, result, raised_in, dailyFrame>>

\* an exception of the chat's processing is logged by the per-chat handler
\* and the loop goes on
DailyChatRaised ==
    /\ hpc = "daily_raised"
    /\ raised_in' = raised_in \cup {cur}
    /\ IF AfterChatRaised = "next"
       THEN /\ hpc' = "daily_next"
            /\ UNCHANGED result
       ELSE /\ hpc' = "daily_done"
            /\ result' = [returned |-> TRUE, success |-> TRUE]
    /\ UNCHANGED <<cur, ev, os_bound, img_path, img_files, exc, outbox, dailyFrame>>

\* the next chat of the loop, or the end of the run
DailyNext ==
    /\ hpc = "daily_next"
    /\ IF cur < chats
       THEN /\ cur' = cur + 1
            /\ ev' = NoEv
            /\ exc' = ""
            /\ hpc' = "daily_query"
            /\ UNCHANGED result
       ELSE /\ hpc' = "daily_done"
            /\ result' = [returned |-> TRUE, success |-> TRUE]
            /\ UNCHANGED <<cur, ev, exc>>
    /\ UNCHANGED <<os_bound, img_path, img_files, outbox, raised_in, dailyFrame>>

NextDaily ==
    \/ DailyStart
    \/ DailyGetMessages
    \/ DailyGenerateSummary
    \/ DailyAnalyze
    \/ DailyRender
    \/ DailySendImage
    \/ DailyFinally
    \/ DailyFallback
    \/ DailyChatRaised
    \/ DailyNext

SpecDaily == InitDaily /\ [][NextDaily]_vars

(***************************************************************************)
(* SpecPlugin: either handler.                                             *)
(***************************************************************************)
InitPlugin == InitCommand \/ InitDaily

NextPlugin == NextCommand \/ NextDaily

SpecPlugin == InitPlugin /\ [][NextPlugin]_vars

(***************************************************************************)
(* SummaryScheduler of src/plugin.py. A coroutine runs without             *)
(* interruption between two awaits, so there is one action per stretch of  *)
(* code between awaits. The day has SlotsPerDay hours; the clock is the    *)
(* wall clock _get_timezone_now reads.                                     *)
(***************************************************************************)
\* values of auto_summary.time, split at ":": "23:00", "01:00", "2300",
\* "01:00:00", "ab:00", an hour past the last one ("25:00"), "01:60"
TimeStrings ==
    { DEFAULT_TIME, <<Num(1), Num(0)>>, <<Num(DefaultHour)>>, <<Num(1), Num(0), Num(0)>>,
      <<Word, Num(0)>>, <<Num(SlotsPerDay), Num(0)>>, <<Num(1), Num(60)>> }

\* hour, minute = map(int, summary_time_str.split(":")) raises ValueError:
\* not two fields, or a field int() rejects
ParseRaises(str) == Len(str) # 2 \/ \E i \in 1..Len(str) : ~str[i].digits

\* the inner try/except ValueError: hour, minute = 23, 0
ParsedTime(str) ==
    IF ParseRaises(str) THEN [hour |-> DefaultHour, minute |-> 0]
    ELSE [hour |-> str[1].value, minute |-> str[2].value]

\* now.replace(hour=hour, minute=minute, ...) raises ValueError
ReplaceRaises(t) == t.hour \notin 0..(SlotsPerDay - 1) \/ t.minute \notin 0..59

\* today_schedule, moved to tomorrow when now >= today_schedule
NextSchedule(now, t) ==
    IF now.slot >= t.hour THEN [day |-> now.day + 1, slot |-> t.hour]
    ELSE [day |-> now.day, slot |-> t.hour]

Before(a, b) == a.day < b.day \/ (a.day = b.day /\ a.slot < b.slot)

\* a loop that runs whenever it wakes
NeverRanToday(last, current_date) == FALSE

\* self.last_execution_date == current_date
AlreadyRanToday(last, current_date) == last = current_date

NewTask == [pc |-> "top", cancelled |-> FALSE, until |-> Midnight(0), date |-> NoDate]

TaskIds == 1..Len(tasks)

\* the invocation of summary_generator the task is waiting for
PendingRun(t) == CHOOSE r \in 1..Len(runs) : runs[r].task = t /\ runs[r].outcome = "-"

loopFrame == <<scheduler_started, constructed, start_calls, handlers, stops, sched_enabled,
               wrapVars, chartVars, renderVars, fontVars, plugVars, twiceVars, saveVars>>

\* `while self.is_running:` up to `await asyncio.sleep(wait_seconds)`, or up to
\* the `await asyncio.sleep(60)` of the handler when the iteration raises
LoopTop(t) ==
    /\ tasks[t].pc = "top" /\ ~tasks[t].cancelled
    /\ tasks' = [tasks EXCEPT ![t] =
          IF ~is_running THEN [@ EXCEPT !.pc = "ended"]
          ELSE IF ReplaceRaises(ParsedTime(time_str)) THEN [@ EXCEPT !.pc = "backoff"]
          ELSE [@ EXCEPT !.pc = "sleeping",
                         !.until = NextSchedule(clock, ParsedTime(time_str))]]
    /\ UNCHANGED <<is_running, task, last_execution_date, clock, time_str, runs, loopFrame>>

\* after the sleep: the is_running test, the date test, the call of
\* summary_generator. The sleep counts loop time, so the wall clock may stand
\* before or after `until` when it ends.
LoopWake(t) ==
    /\ tasks[t].pc = "sleeping" /\ ~tasks[t].cancelled
    /\ IF ~is_running
       THEN /\ tasks' = [tasks EXCEPT ![t].pc = "ended"]
            /\ UNCHANGED runs
       ELSE IF AlreadyRanToday(last_execution_date, clock.day)
       THEN /\ tasks' = [tasks EXCEPT ![t].pc = "top"]
            /\ UNCHANGED runs
       ELSE /\ Len(runs) < MaxRuns
            /\ runs' = Append(runs, [task |-> t, date |-> clock.day, done |-> NoDate,
                                     outcome |-> "-"])
            /\ tasks' = [tasks EXCEPT ![t].pc = "running", ![t].date = clock.day]
    /\ UNCHANGED <<is_running, task, last_execution_date, clock, time_str, loopFrame>>

\* summary_generator returns or raises
LoopRunDone(t) ==
    /\ tasks[t].pc = "running" /\ ~tasks[t].cancelled
    /\ \E outcome \in {"ok", "raise"} :
          /\ runs' = [runs EXCEPT ![PendingRun(t)] =
                         [@ EXCEPT !.done = clock.day, !.outcome = outcome]]
          /\ IF outcome = "ok"
             THEN /\ last_execution_date' = tasks[t].date
                  /\ tasks' = [tasks EXCEPT ![t].pc = "top"]
             ELSE /\ tasks' = [tasks EXCEPT ![t].pc = "backoff"]
                  /\ UNCHANGED last_execution_date
    /\ UNCHANGED <<is_running, task, clock, time_str, loopFrame>>

\* the sleep of the handler is over: back to the top of the loop
LoopBackoffOver(t) ==
    /\ tasks[t].pc = "backoff" /\ ~tasks[t].cancelled
    /\ tasks' = [tasks EXCEPT ![t].pc = "top"]
    /\ UNCHANGED <<is_running, task, last_execution_date, clock, time_str, runs, loopFrame>>

\* CancelledError is thrown into the task at the await it stands at (or the
\* task never starts): `except asyncio.CancelledError: break`, or out of the
\* handler's sleep
LoopCancelled(t) ==
    /\ tasks[t].cancelled /\ tasks[t].pc # "ended"
    /\ tasks' = [tasks EXCEPT ![t].pc = "ended"]
    /\ runs' = IF tasks[t].pc = "running"
               THEN [runs EXCEPT ![PendingRun(t)] =
                        [@ EXCEPT !.done = clock.day, !.outcome = "cancelled"]]
               ELSE runs
    /\ UNCHANGED <<is_running, task, last_execution_date, clock, time_str, loopFrame>>

\* an hour passes
Tick ==
    /\ Before(clock, [day |-> MaxDays, slot |-> SlotsPerDay - 1])
    /\ clock' = IF clock.slot = SlotsPerDay - 1 THEN Midnight(clock.day + 1)
                ELSE [clock EXCEPT !.slot = @ + 1]
    /\ UNCHANGED <<is_running, task, last_execution_date, tasks, time_str, runs, loopFrame>>

\* the configuration is edited
ChangeTime ==
    /\ \E str \in TimeStrings \ {time_str} : time_str' = str
    /\ UNCHANGED <<is_running, task, last_execution_date, tasks, clock, runs, loopFrame>>

(***************************************************************************)
(* SpecLoop: one _schedule_loop task of a started scheduler.               *)
(***************************************************************************)
InitLoop ==
    /\ scheduler_started = TRUE /\ constructed = 1 /\ start_calls = 1
    /\ handlers = <<"done">> /\ stops = <<>>
    /\ is_running = TRUE /\ task = 1 /\ last_execution_date = NoDate
    /\ tasks = <<NewTask>>
    /\ clock \in {[day |-> 0, slot |-> h] : h \in 0..(SlotsPerDay - 1)}
    /\ time_str \in TimeStrings
    /\ sched_enabled = TRUE /\ runs = <<>>
    /\ WrapIdle /\ ChartIdle /\ RenderIdle /\ FontIdle /\ PlugIdle /\ TwiceIdle /\ SaveIdle

NextLoop ==
    \/ \E t \in TaskIds : LoopTop(t)
    \/ \E t \in TaskIds : LoopWake(t)
    \/ \E t \in TaskIds : LoopRunDone(t)
    \/ \E t \in TaskIds : LoopBackoffOver(t)
    \/ Tick
    \/ ChangeTime

SpecLoop == InitLoop /\ [][NextLoop]_vars

(***************************************************************************)
(* DailySummaryEventHandler.execute, SummaryScheduler.start and stop.      *)
(***************************************************************************)
\* a handler that raises the flag only when start() has returned
FlagRaisedAfterStart == FALSE

\* line 828: the flag is raised right after the test, before anything is awaited
FlagRaisedAtTest == TRUE

\* a stop() that does not cancel the task
CancelSkipped(at) == FALSE

\* self.task.cancel(): a request unless the task is done
CancelRequested(at) == at # "ended"

startFrame == <<wrapVars, chartVars, renderVars, fontVars, plugVars, twiceVars, saveVars>>

\* the body of start(): nothing when running or not enabled, else the loop
\* task is created
StartBody ==
    IF is_running \/ ~sched_enabled
    THEN UNCHANGED <<is_running, task, tasks>>
    ELSE /\ Len(tasks) < MaxTasks
         /\ is_running' = TRUE
         /\ tasks' = Append(tasks, NewTask)
         /\ task' = Len(tasks) + 1

\* execute up to `await ... start(...)`: the test of the flag, the flag, the
\* construction of the scheduler
HandlerCheck(e) ==
    /\ handlers[e] = "fired"
    /\ IF scheduler_started
       THEN /\ handlers' = [handlers EXCEPT ![e] = "done"]
            /\ UNCHANGED <<scheduler_started, constructed, is_running, task,
                           last_execution_date>>
       ELSE /\ handlers' = [handlers EXCEPT ![e] = "starting"]
            /\ scheduler_started' = FlagRaisedAtTest
            /\ constructed' = constructed + 1
            /\ is_running' = FALSE /\ task' = 0 /\ last_execution_date' = NoDate
    /\ UNCHANGED <<start_calls, stops, tasks, clock, time_str, sched_enabled, runs, startFrame>>

\* `await DailySummaryEventHandler._scheduler.start(...)` and the return
HandlerStart(e) ==
    /\ handlers[e] = "starting"
    /\ StartBody
    /\ start_calls' = start_calls + 1
    /\ scheduler_started' = TRUE
    /\ handlers' = [handlers EXCEPT ![e] = "done"]
    /\ UNCHANGED <<constructed, stops, last_execution_date, clock, time_str, sched_enabled,
                   runs, startFrame>>

\* start() called on the scheduler by other code
StartCall ==
    /\ constructed >= 1
    /\ StartBody
    /\ ~UNCHANGED tasks
    /\ UNCHANGED <<scheduler_started, constructed, start_calls, handlers, stops,
                   last_execution_date, clock, time_str, sched_enabled, runs, startFrame>>

\* stop() up to `await self.task`, or all of it when the scheduler is not running
StopCall(k) ==
    /\ stops[k].pc = "idle"
    /\ IF ~is_running
       THEN /\ stops' = [stops EXCEPT ![k].pc = "returned"]
            /\ UNCHANGED <<is_running, tasks>>
       ELSE /\ is_running' = FALSE
            /\ tasks' = IF task # 0 /\ CancelRequested(tasks[task].pc)
                        THEN [tasks EXCEPT ![task].cancelled = TRUE]
                        ELSE tasks
            /\ stops' = [stops EXCEPT ![k] = [pc |-> IF task # 0 THEN "waiting" ELSE "returned",
                                              task |-> task]]
    /\ UNCHANGED <<scheduler_started, constructed, start_calls, handlers, task,
                   last_execution_date, clock, time_str, sched_enabled, runs, startFrame>>

\* the awaited task is done: stop() returns
StopReturn(k) ==
    /\ stops[k].pc = "waiting"
    /\ tasks[stops[k].task].pc = "ended"
    /\ stops' = [stops EXCEPT ![k].pc = "returned"]
    /\ UNCHANGED <<scheduler_started, constructed, start_calls, handlers, is_running, task,
                   last_execution_date, tasks, clock, time_str, sched_enabled, runs,
                   startFrame>>

(***************************************************************************)
(* SpecStart: MaxEvents ON_START events, their handlers interleaved with   *)
(* each other and with the loop.                                           *)
(***************************************************************************)
InitStart ==
    /\ scheduler_started = FALSE /\ constructed = 0 /\ start_calls = 0
    /\ handlers = [e \in 1..MaxEvents |-> "fired"] /\ stops = <<>>
    /\ is_running = FALSE /\ task = 0 /\ last_execution_date = NoDate
    /\ tasks = <<>>
    /\ clock = Midnight(0)
    /\ time_str = DEFAULT_TIME
    /\ sched_enabled \in BOOLEAN /\ runs = <<>>
    /\ WrapIdle /\ ChartIdle /\ RenderIdle /\ FontIdle /\ PlugIdle /\ TwiceIdle /\ SaveIdle

NextStart ==
    \/ \E e \in DOMAIN handlers : HandlerCheck(e)
    \/ \E e \in DOMAIN handlers : HandlerStart(e)
    \/ \E t \in TaskIds : LoopTop(t)
    \/ \E t \in TaskIds : LoopWake(t)
    \/ \E t \in TaskIds : LoopRunDone(t)
    \/ \E t \in TaskIds : LoopBackoffOver(t)
    \/ Tick

SpecStart == InitStart /\ [][NextStart]_vars

(***************************************************************************)
(* SpecStartStop: a constructed scheduler on which start() and stop() are  *)
(* called in any order while the loop runs, in the hour before 23:00 and   *)
(* the hour after.                                                         *)
(***************************************************************************)
InitStartStop ==
    /\ scheduler_started = TRUE /\ constructed = 1 /\ start_calls = 0
    /\ handlers = <<"done">>
    /\ stops = [k \in 1..MaxStops |-> [pc |-> "idle", task |-> 0]]
    /\ is_running = FALSE /\ task = 0 /\ last_execution_date = NoDate
    /\ tasks = <<>>
    /\ clock = [day |-> MaxDays, slot |-> DefaultHour - 1]
    /\ time_str = DEFAULT_TIME
    /\ sched_enabled = TRUE /\ runs = <<>>
    /\ WrapIdle /\ ChartIdle /\ RenderIdle /\ FontIdle /\ PlugIdle /\ TwiceIdle /\ SaveIdle

NextStartStop ==
    \/ StartCall
    \/ \E k \in DOMAIN stops : StopCall(k)
    \/ \E k \in DOMAIN stops : StopReturn(k)
    \/ \E t \in TaskIds : LoopTop(t)
    \/ \E t \in TaskIds : LoopWake(t)
    \/ \E t \in TaskIds : LoopRunDone(t)
    \/ \E t \in TaskIds : LoopBackoffOver(t)
    \/ \E t \in TaskIds : LoopCancelled(t)
    \/ Tick

SpecStartStop == InitStartStop /\ [][NextStartStop]_vars




(***************************************************************************)
(* Claims about _wrap_text.                                                *)
(***************************************************************************)
EveryCharFits == \A i \in 1..Len(wtext) : CharWidth(wfont, wtext[i]) <= wmax

\* C7: when every single character's width alone is <= max_width, every line
\* _wrap_text returns has rendered width <= max_width.
C7_WrapLinesFit ==
    (wpc = "done" /\ EveryCharFits) =>
        \A k \in 1..Len(wlines) : TextWidth(wfont, wlines[k]) <= wmax

\* a text of one paragraph, with a wide glyph, that was broken into several lines
C7_Witness ==
    /\ wpc = "done" /\ EveryCharFits
    /\ \A i \in 1..Len(wtext) : wtext[i] # NL
    /\ \E i \in 1..Len(wtext) : wtext[i] = "W"
    /\ Len(wlines) >= 2
    /\ wfont.face = "loose"

\* lines splits into consecutive groups, one per paragraph, each group
\* concatenating to its paragraph; an empty paragraph has the one line ''
RECURSIVE Reproduces(_, _)
Reproduces(lines, paragraphs) ==
    IF paragraphs = <<>> THEN lines = <<>>
    ELSE \E k \in 1..Len(lines) :
            /\ Head(paragraphs) = <<>> => k = 1
            /\ Flatten(SubSeq(lines, 1, k)) = Head(paragraphs)
            /\ Reproduces(SubSeq(lines, k + 1, Len(lines)), Tail(paragraphs))

\* as Reproduces, but a paragraph of whitespace only has the one line ''
RECURSIVE ReproducesNonBlank(_, _)
ReproducesNonBlank(lines, paragraphs) ==
    IF paragraphs = <<>> THEN lines = <<>>
    ELSE \E k \in 1..Len(lines) :
            /\ IF IsBlank(Head(paragraphs))
               THEN k = 1 /\ lines[1] = <<>>
               ELSE Flatten(SubSeq(lines, 1, k)) = Head(paragraphs)
            /\ ReproducesNonBlank(SubSeq(lines, k + 1, Len(lines)), Tail(paragraphs))

\* C8 as stated: for any text, the lines of each newline-separated paragraph,
\* concatenated, reproduce that paragraph character for character, in order.
C8_WrapLosesNothing ==
    wpc = "done" => Reproduces(wlines, SplitLines(wtext))

\* C8 as amended: every paragraph that has a non-whitespace character is
\* reproduced character for character by its lines, in order; a paragraph that
\* is empty or holds only whitespace yields exactly one empty line.
C8_WrapLosesNothingButBlanks ==
    wpc = "done" => ReproducesNonBlank(wlines, SplitLines(wtext))

\* a text with a wrapped paragraph and a paragraph of spaces only
C8_Witness ==
    /\ wpc = "done"
    /\ wfont.face = "loose"
    /\ \E i \in 1..Len(SplitLines(wtext)) :
          LET p == SplitLines(wtext)[i] IN p # <<>> /\ IsBlank(p)
    /\ \E i \in 1..Len(SplitLines(wtext)) :
          LET p == SplitLines(wtext)[i]
          IN  ~IsBlank(p) /\ Len(WrapParagraph(wfont, wmax, p)) >= 2

(***************************************************************************)
(* Claims about _draw_hourly_chart.                                        *)
(***************************************************************************)
\* C10: every one of the 24 bars is at least 3 pixels high, for every
\* hourly_data: zero counts, absent hours, the all-zero and the empty dict.
C10_BarsAtLeastFloor ==
    cpc = "done" =>
        /\ DOMAIN bars = Hours
        /\ \A hour \in Hours : bars[hour].bar_height >= MIN_BAR_HEIGHT

\* a dict with a zero count, an absent hour and a non-zero count
C10_Witness ==
    /\ cpc = "done"
    /\ \E h \in DOMAIN hourly_data : hourly_data[h] = 0 /\ bars[h].bar_height = 3
    /\ \E h \in DOMAIN hourly_data : hourly_data[h] > 0 /\ bars[h].bar_height > 3
    /\ \E h \in Hours \ DOMAIN hourly_data : bars[h].bar_height = 3

(***************************************************************************)
(* Claims about generate_summary_image of src/core.                        *)
(***************************************************************************)
\* the primitives of one kind painted for one section, in paint order
Painted(sec, op) == SelectSeq(painted, LAMBDA o : o.sec = sec /\ o.op = op)

PaintedIn(sec) == SelectSeq(painted, LAMBDA o : o.sec = sec)

AllCards == SelectSeq(painted, LAMBDA o : o.op = "card")

Indexes(ops) == [i \in 1..Len(ops) |-> ops[i].idx]

IndexesUpTo(n) == [i \in 1..n |-> i]

SomeCountNonZero == \E h \in DOMAIN hourly_distribution : hourly_distribution[h] # 0

LaidOut == pc \in {"header", "chart", "summary", "titles", "quotes", "footer", "done"}

\* C1: total_height is the sum of the block heights (header 300 + chart +
\* summary + titles + quotes + footer 280), and the paint cursor enters every
\* section at the offset the layout pass reserved: after the last content
\* section it stands at total_height - footer_height.
C1_CursorFollowsLayout ==
    /\ LaidOut =>
          /\ layout.header_height = 300 /\ layout.footer_height = 280
          /\ layout.total_height =
                300 + layout.hourly_chart_height + layout.summary_card_height
                + layout.titles_section_height + layout.quotes_section_height + 280
    /\ pc = "chart" => y = layout.header_height
    /\ pc = "summary" => y = layout.header_height + layout.hourly_chart_height
    /\ pc = "titles" =>
          y = layout.header_height + layout.hourly_chart_height
              + layout.summary_card_height
    /\ pc = "quotes" =>
          y = layout.header_height + layout.hourly_chart_height
              + layout.summary_card_height + layout.titles_section_height
    /\ pc = "footer" => y = layout.total_height - layout.footer_height

\* the cursor after the last section of a render with the chart, wrapped
\* lines, and more title and quote cards than are displayed
C1_Witness ==
    /\ pc = "footer"
    /\ y = layout.total_height - layout.footer_height
    /\ layout.hourly_chart_height = 440
    /\ Len(user_titles) > DISPLAY_CAP /\ Len(golden_quotes) > DISPLAY_CAP
    /\ Len(Painted("summary", "text")) >= 2
    /\ width = 400

\* C3: of N title cards the layout pass measures exactly min(N, 4) and the
\* paint pass paints exactly min(N, 4), the same cards in the same order;
\* likewise for quote cards.
C3_CapConsistent ==
    pc \in {"footer", "done"} =>
        LET mt == SelectSeq(measured, LAMBDA m : m.sec = "titles")
            mq == SelectSeq(measured, LAMBDA m : m.sec = "quotes")
        IN  /\ Indexes(mt) = IndexesUpTo(Min(Len(user_titles), 4))
            /\ Indexes(Painted("titles", "card")) = Indexes(mt)
            /\ Indexes(mq) = IndexesUpTo(Min(Len(golden_quotes), 4))
            /\ Indexes(Painted("quotes", "card")) = Indexes(mq)

\* a finished render of more than four title cards and more than four quote cards
C3_Witness ==
    /\ pc = "done"
    /\ Len(user_titles) > 4 /\ Len(golden_quotes) > 4
    /\ Len(Painted("titles", "card")) = 4 /\ Len(Painted("quotes", "card")) = 4

\* C4: with zero quote cards the quote section adds 0 to total_height and
\* nothing of it is painted, and the same for zero title cards; the total
\* height with quote cards minus the total height of the same input without
\* them is 190 plus, for every displayed card, its height plus the card spacing.
C4_EmptySectionOmitted ==
    pc = "done" =>
        /\ golden_quotes = <<>> =>
              layout.quotes_section_height = 0 /\ PaintedIn("quotes") = <<>>
        /\ user_titles = <<>> =>
              layout.titles_section_height = 0 /\ PaintedIn("titles") = <<>>
        /\ golden_quotes # <<>> =>
              LET cards == Painted("quotes", "card")
                  without == CoreLayout(face, width, summary_text, user_titles, <<>>,
                                        hourly_distribution)
              IN  layout.total_height - without.total_height =
                      190 + SumSeq([i \in 1..Len(cards) |->
                                       cards[i].bottom - cards[i].top + CARD_SPACING])

\* a finished render without title cards and with quote cards
C4_Witness ==
    /\ pc = "done"
    /\ user_titles = <<>> /\ PaintedIn("titles") = <<>>
    /\ Len(golden_quotes) >= 2 /\ Len(Painted("quotes", "card")) >= 2

\* C5: no two cards overlap; in the title and quote sections the top of card
\* k+1 is the bottom of card k plus CARD_SPACING; every card lies between
\* header_height and total_height - footer_height.
C5_CardsApartAndInside ==
    LaidOut =>
        /\ \A i \in 1..Len(AllCards) :
              /\ AllCards[i].top >= layout.header_height
              /\ AllCards[i].bottom <= layout.total_height - layout.footer_height
        /\ \A i, j \in 1..Len(AllCards) :
              i < j => AllCards[i].bottom <= AllCards[j].top
        /\ \A sec \in {"titles", "quotes"} :
              LET cards == Painted(sec, "card")
              IN  \A k \in 1..(Len(cards) - 1) :
                      cards[k + 1].top = cards[k].bottom + 35

\* a finished render with the chart card, the summary card, four title cards
\* and four quote cards
C5_Witness ==
    /\ pc = "done"
    /\ Len(Painted("chart", "card")) = 1
    /\ Len(Painted("titles", "card")) = 4 /\ Len(Painted("quotes", "card")) = 4
    /\ width = 400

TextLines == SelectSeq(painted, LAMBDA o : o.op = "text" /\ o.sec # "header")

\* C6: every text line painted for a card (summary lines; a title card's
\* name and reason lines; a quote card's quote lines, sender line and reason
\* lines) starts at or below the card's top edge and ends, one line height
\* further down, at or above the card's bottom edge.
C6_TextInsideCard ==
    \A i \in 1..Len(TextLines) :
        LET t == TextLines[i]
            cards == SelectSeq(painted,
                        LAMBDA o : o.op = "card" /\ o.sec = t.sec /\ o.idx = t.idx)
        IN  /\ Len(cards) = 1
            /\ cards[1].top <= t.top
            /\ t.bottom <= cards[1].bottom

\* a finished render with wrapped summary, reason and quote lines and a quote
\* card at the minimum height of 200
C6_Witness ==
    /\ pc = "done"
    /\ Len(Painted("summary", "text")) >= 2
    /\ \E k \in 1..4 :
          Len(SelectSeq(painted, LAMBDA o : o.sec = "titles" /\ o.idx = k
                                             /\ o.what = "reason")) >= 2
    /\ \E k \in 1..4 :
          Len(SelectSeq(painted, LAMBDA o : o.sec = "quotes" /\ o.idx = k
                                             /\ o.what = "reason")) >= 3
    /\ \E i \in 1..Len(AllCards) :
          /\ AllCards[i].sec = "quotes"
          /\ AllCards[i].bottom - AllCards[i].top = 200

\* a finished render with a title card at the minimum height of 120
C6_WitnessTitleClamped ==
    /\ pc = "done"
    /\ \E i \in 1..Len(AllCards) :
          /\ AllCards[i].sec = "titles"
          /\ AllCards[i].bottom - AllCards[i].top = 120

\* C9: the chart section adds its 440 to total_height and is painted if and
\* only if hourly_distribution has a non-zero count; both passes decide alike,
\* and for an empty or all-zero dict it adds 0 and nothing of it is painted.
C9_ChartIffNonZeroCount ==
    /\ LaidOut =>
          layout.hourly_chart_height = (IF SomeCountNonZero THEN 440 ELSE 0)
    /\ pc \in {"summary", "titles", "quotes", "footer", "done"} =>
          /\ PaintedIn("chart") # <<>> <=> SomeCountNonZero
          /\ bars # NoBars <=> SomeCountNonZero
          /\ PaintedIn("chart") # <<>> <=> layout.hourly_chart_height = 440

\* a finished render of a dict that has an hour and only zero counts
C9_Witness ==
    /\ pc = "done"
    /\ DOMAIN hourly_distribution # {}
    /\ ~SomeCountNonZero
    /\ PaintedIn("chart") = <<>> /\ layout.hourly_chart_height = 0

\* a finished render of a dict with a non-zero count
C9_WitnessIncluded ==
    /\ pc = "done"
    /\ SomeCountNonZero
    /\ PaintedIn("chart") # <<>> /\ layout.hourly_chart_height = 440

(***************************************************************************)
(* Claims about generate_summary_image of src/summary_image_generator.py.  *)
(***************************************************************************)
\* C2: in the renderer plugin.py imports, the paint pass consumes exactly the
\* heights that make up total_height: after header, summary card, title
\* section and quote section the cursor stands at total_height -
\* footer_height, so the footer and every card lie inside the canvas.
C2_LegacyCursorFollowsLayout ==
    /\ pc = "footer" => y = layout.total_height - layout.footer_height
    /\ \A i \in 1..Len(painted) :
          painted[i].op = "card" \/ painted[i].sec = "footer" =>
              painted[i].bottom <= layout.total_height


(***************************************************************************)
(* Claims about the bar heights of _draw_hourly_chart.                     *)
(***************************************************************************)
\* the largest count of the 24 hour buckets (absent hours count 0)
BucketMax ==
    CHOOSE m \in {bars[h].count : h \in Hours} :
        \A h \in Hours : bars[h].count <= m

\* q is floor(num / den)
IsFloor(q, num, den) == q * den <= num /\ num < (q + 1) * den

BarsScaled ==
    \A h \in Hours :
        \E q \in 0..AvailableHeight(chart_coords) :
            /\ IsFloor(q, AvailableHeight(chart_coords) * bars[h].count, BucketMax)
            /\ bars[h].bar_height = Max(MIN_BAR_HEIGHT, q)

BarsMonotone ==
    \A h1, h2 \in Hours :
        bars[h1].count <= bars[h2].count => bars[h1].bar_height <= bars[h2].bar_height

BarsBelowTop ==
    \A h \in Hours :
        /\ bars[h].bar_height <= AvailableHeight(chart_coords)
        /\ bars[h].bar_y >= chart_coords.y1 + 40
        /\ bars[h].bar_y + bars[h].bar_height = chart_coords.y1 + 40 + AvailableHeight(chart_coords)

MaxBarIsFull ==
    \A h \in Hours :
        bars[h].count = BucketMax =>
            /\ bars[h].bar_height = AvailableHeight(chart_coords)
            /\ \A h2 \in Hours : bars[h2].bar_height <= bars[h].bar_height

SomeFontUsable == \E i \in FontPaths : font_files[i] = "ok"

\* C12: _get_font returns the font of the first candidate path that exists
\* and loads, at the requested size; it raises RuntimeError exactly when no
\* candidate exists and loads; missing and unloadable candidates before the
\* first usable one are skipped.
C12_FirstUsableFont ==
    fpc = "done" =>
        /\ font_result.raised = "RuntimeError" <=> ~SomeFontUsable
        /\ SomeFontUsable =>
              /\ font_result.size = font_size
              /\ font_files[font_result.path] = "ok"
              /\ \A i \in FontPaths : i < font_result.path => font_files[i] # "ok"

\* a missing candidate and an unloadable one are passed over for a later font
C12_Witness ==
    /\ fpc = "done"
    /\ font_result.raised = ""
    /\ font_result.path >= 3
    /\ \E i, j \in FontPaths :
          /\ i < font_result.path /\ j < font_result.path
          /\ font_files[i] = "missing" /\ font_files[j] = "broken"

\* every candidate is missing or unloadable, at least one of each
C12_WitnessNoFont ==
    /\ fpc = "done"
    /\ font_result.raised = "RuntimeError"
    /\ \E i, j \in FontPaths : font_files[i] = "missing" /\ font_files[j] = "broken"


(***************************************************************************)
(* Claims about the handlers of plugin.py.                                 *)
(***************************************************************************)
\* the handler has finished with the current chat's summary
Served == cur >= 1 /\ hpc \in {"cmd_done", "daily_next", "daily_done"}

IsCommand == hpc = "cmd_done"

SentTo(chat, kind) ==
    {i \in 1..Len(outbox) : outbox[i].chat = chat /\ outbox[i].kind = kind}

SummaryTextsTo(chat) ==
    {i \in SentTo(chat, "text") : outbox[i].body[Len(outbox[i].body)] = SUMMARY}

RenderCalled == ev.render # "-"

RenderFailed == ev.render \in {"raise", "none"}

C13_WitnessDaily ==
    /\ hpc = "daily_next" /\ cur = 2
    /\ ev.render = "none"
    /\ outbox[Len(outbox)] = Msg(2, "text", <<DAILY_PREFIX, SUMMARY>>)

\* C15: once generate_summary_image has returned a path, the file at that
\* path is gone when the handler is done with the summary, whatever
\* summary.decoration_image_path is set to, unless the removal itself failed.
C15_ImageFileRemoved ==
    (Served /\ ev.render = "ok" /\ ev.remove # "fail") => cur \notin img_files

\* C16: when the image was sent and the removal of the file then fails, the
\* outcome is that of a successful removal: one image, no fallback text, the
\* command returns success, the daily run goes on.
C16_RemovalFailureSwallowed ==
    (Served /\ ev.send = "ok") =>
        /\ ev.remove \in {"ok", "fail"}
        /\ Cardinality(SentTo(cur, "image")) = 1
        /\ SummaryTextsTo(cur) = {}
        /\ exc = ""
        /\ IsCommand => result = [returned |-> TRUE, success |-> TRUE]

\* the image went out, the removal failed and the file is still there
C16_Witness ==
    /\ hpc = "cmd_done"
    /\ ev.send = "ok" /\ ev.remove = "fail"
    /\ 1 \in img_files
    /\ result.success

C16_WitnessDaily ==
    /\ hpc = "daily_next"
    /\ ev.send = "ok" /\ ev.remove = "fail"
    /\ cur \in img_files

\* C17: generate_summary_image is not called when the chat-history query
\* yielded no messages or the summary LLM call failed; the command sends a
\* text notice instead, the daily run skips the chat.
C17_UpstreamFailureShortCircuits ==
    /\ RenderCalled => (ev.msgs > 0 /\ ev.llm = "ok")
    /\ (Served /\ ev.target \in {"group", "user"} /\ (ev.msgs = 0 \/ ev.llm # "ok")) =>
          /\ ~RenderCalled
          /\ SentTo(cur, "image") = {}
          /\ SummaryTextsTo(cur) = {}
          /\ IsCommand =>
                /\ outbox[Len(outbox)].kind = "text"
                /\ outbox[Len(outbox)].body \in {<<"no_records">>, <<"failed">>}

WellFormed(item, keys) ==
    /\ item.isdict
    /\ keys \subseteq DOMAIN item.f
    /\ \A k \in keys : item.f[k] # ""

\* C18: every title card passed to generate_summary_image is a record with
\* non-empty name, title and reason, every quote card one with non-empty
\* content, sender and reason.
C18_OnlyWellFormedItemsRendered ==
    RenderCalled =>
        /\ \A i \in 1..Len(ev.titles) : WellFormed(ev.titles[i], {"name", "title", "reason"})
        /\ \A i \in 1..Len(ev.quotes) : WellFormed(ev.quotes[i], {"content", "sender", "reason"})


(***************************************************************************)
(* Claims about decorations, layering and shared state of the renderer.    *)
(***************************************************************************)
DecorationLayers == {"glow", "icon", "corner"}

Structural(ls) == SelectSeq(ls, LAMBDA l : l.layer \notin DecorationLayers)

\* C14: with any decoration files missing or unreadable the render goes
\* through: the heights of the layout pass, the cursor and every block that
\* is not a decoration are those of a render with all files present, and the
\* only thing left out are the decorations whose file is unusable.
C14_UnusableAssetsOnlyDropDecorations ==
    LaidOut =>
        /\ layout = CoreLayout(face, width, summary_text, user_titles, golden_quotes,
                               hourly_distribution)
        /\ Structural(layers) = Structural(Layers(AllAssets("ok"), painted))
        /\ layers = SelectSeq(Layers(AllAssets("ok"), painted),
                              LAMBDA l : l.layer \in DecorationLayers => assets[AssetOf(l)] = "ok")
        /\ pc = "footer" => y = layout.total_height - layout.footer_height
        /\ pc = "done" => y = layout.total_height - layout.footer_height + 50

\* a finished render with cards and chart, the corner file unreadable, the
\* sparkle file missing and the heart file present
C14_Witness ==
    /\ pc = "done"
    /\ assets["corner"] = "broken" /\ assets["sparkle"] = "missing" /\ assets["heart"] = "ok"
    /\ Len(Painted("titles", "card")) = 2 /\ Len(Painted("quotes", "card")) = 1
    /\ Len(Painted("chart", "card")) = 1
    /\ \E i \in 1..Len(layers) : layers[i].layer = "icon" /\ layers[i].what = "heart"
    /\ \A i \in 1..Len(layers) : layers[i].layer # "corner"

\* a finished render without any decoration file
C14_WitnessNoAssets ==
    /\ pc = "done"
    /\ assets = AllAssets("missing")
    /\ Len(Painted("titles", "card")) = 2
    /\ \A i \in 1..Len(layers) : layers[i].layer \notin DecorationLayers

\* the card blocks: the chart card, the summary card, every title and quote card
CardBlocks ==
    {<<"chart", 0>>, <<"summary", 0>>}
    \cup {<<sec, idx>> : sec \in {"titles", "quotes"}, idx \in 1..DISPLAY_CAP}

BlockLayers(block) ==
    SelectSeq(layers, LAMBDA l : /\ l.sec = block[1] /\ l.idx = block[2]
                                 /\ l.layer \notin {"divider", "section_title"})

Rank(layer) ==
    CASE layer = "shadow" -> 1
      [] layer = "fill" -> 2
      [] layer = "border" -> 3
      [] layer \in DecorationLayers -> 4
      [] OTHER -> 5

\* C19: in every card block the layers go down in the order shadow,
\* background, border, decorations, text -- no decoration after the block's
\* text -- and every decoration icon comes right after its own glow.
C19_LayerOrder ==
    /\ \A block \in CardBlocks :
          LET ls == BlockLayers(block)
          IN  \A i, j \in 1..Len(ls) : i < j => Rank(ls[i].layer) <= Rank(ls[j].layer)
    /\ \A i \in 1..Len(layers) :
          layers[i].layer = "icon" =>
              /\ i > 1
              /\ layers[i - 1] = [layers[i] EXCEPT !.layer = "glow"]

\* C19 without the summary card: the order holds in every other card block
C19_LayerOrderButSummary ==
    /\ \A block \in CardBlocks \ {<<"summary", 0>>} :
          LET ls == BlockLayers(block)
          IN  \A i, j \in 1..Len(ls) : i < j => Rank(ls[i].layer) <= Rank(ls[j].layer)
    /\ \A i \in 1..Len(layers) :
          layers[i].layer = "icon" =>
              /\ i > 1
              /\ layers[i - 1] = [layers[i] EXCEPT !.layer = "glow"]

\* C20: no step of a render changes the state of the process-wide random
\* generator.
C20_RngUntouched == [][rng' = rng]_vars


(***************************************************************************)
(* Claims about the smallest poster and about repeated renders.            *)
(***************************************************************************)
NothingButSummary ==
    /\ user_titles = <<>> /\ golden_quotes = <<>> /\ DOMAIN hourly_distribution = {}

\* C21: with an empty summary text, no titles, no quotes and no histogram the
\* wrapper returns one empty line and total_height is header_height (300)
\* plus the summary block of one line plus footer_height (280); the title,
\* quote and chart heights are 0.
C21_SmallestPoster ==
    (LaidOut /\ summary_text = <<>> /\ NothingButSummary) =>
        /\ WrapText(summary_text, CoreTextWidth(width), Font(face, TEXT_SIZE)) = << <<>> >>
        /\ layout.header_height = 300 /\ layout.footer_height = 280
        /\ layout.hourly_chart_height = 0
        /\ layout.titles_section_height = 0
        /\ layout.quotes_section_height = 0
        /\ layout.summary_card_height
              = 40 + (CARD_PADDING * 2 + 1 * (LineHeight(Font(face, TEXT_SIZE)) + 18) + 80) + 50
        /\ layout.total_height = 300 + layout.summary_card_height + 280

\* the smallest poster, rendered to the end
C21_Witness ==
    /\ pc = "done" /\ summary_text = <<>> /\ NothingButSummary
    /\ Len(Painted("summary", "card")) = 1
    /\ y = layout.total_height - 280 + 50


IsPrefix(s, t) == Len(s) <= Len(t) /\ s = SubSeq(t, 1, Len(s))

\* C22: a second render with the same inputs has the canvas size of the
\* first and puts every block at the offset the first put it at, and once its
\* background is drawn the random generator is in the state the first render
\* left it in (both reseed it with 42).
C22_SecondRenderRepeatsFirst ==
    first # NoFirst =>
        /\ width = first.width
        /\ LaidOut => layout = first.layout
        /\ IsPrefix(painted, first.painted)
        /\ pc \notin {"layout", "header"} => rng = first.rng
        /\ pc = "done" => /\ painted = first.painted
                          /\ measured = first.measured

\* the second render of a poster with chart, titles and quotes has finished
C22_Witness ==
    /\ first # NoFirst /\ pc = "done"
    /\ first.rng = SeededBackground(width, layout.total_height)
    /\ Len(Painted("titles", "card")) >= 2 /\ Len(Painted("quotes", "card")) >= 1
    /\ Len(Painted("chart", "card")) = 1


(***************************************************************************)
(* Claims about concurrent renders.                                        *)
(***************************************************************************)
\* C23: no two renders choose the same filename, and from its save to its
\* own cleanup a render's file stays its own: no other render overwrites or
\* removes it.
C23_FilenamesDistinct ==
    /\ \A i, j \in Renders :
          (i # j /\ jobs[i].name # 0 /\ jobs[j].name # 0) => jobs[i].name # jobs[j].name
    /\ \A i \in Renders :
          jobs[i].pc \in {"send", "finally"} => disk[jobs[i].name] = i


(***************************************************************************)
(* Claims about the scheduler loop.                                        *)
(***************************************************************************)
RunIds == 1..Len(runs)

Succeeded(r) == runs[r].outcome = "ok"

\* summary_generator is never called while last_execution_date is the
\* current date
InvokedOnlyOnNewDate ==
    \A t \in TaskIds :
        tasks[t].pc = "running" =>
            /\ runs[PendingRun(t)].date = tasks[t].date
            /\ last_execution_date # tasks[t].date

\* C25 as stated: summary_generator is never called while
\* last_execution_date is the current date, and no two successful runs
\* complete on the same calendar date.
C25_OneCompletionPerDate ==
    /\ InvokedOnlyOnNewDate
    /\ \A r1, r2 \in RunIds :
          (r1 # r2 /\ Succeeded(r1) /\ Succeeded(r2)) => runs[r1].done # runs[r2].done

\* C25: summary_generator is never called while last_execution_date is the
\* current date, and no two successful runs were started on the same calendar
\* date, whatever auto_summary.time is changed to and whenever the sleep ends.
C25_OneRunPerDate ==
    /\ InvokedOnlyOnNewDate
    /\ \A r1, r2 \in RunIds :
          (r1 # r2 /\ Succeeded(r1) /\ Succeeded(r2)) => runs[r1].date # runs[r2].date

\* on one date: a successful run, then the time is changed to a later hour
\* and the loop wakes again and skips the run
C25_Witness ==
    /\ \E r \in RunIds : Succeeded(r) /\ runs[r].date = clock.day
    /\ last_execution_date = clock.day
    /\ tasks[1].pc = "top" /\ tasks[1].until = [day |-> clock.day, slot |-> DefaultHour]
    /\ Len(runs) = 1 /\ runs[1].date = 0 /\ clock.day = 0
    /\ time_str = DEFAULT_TIME

\* two successful runs on consecutive dates
C25_WitnessTwoDays ==
    \E r1, r2 \in RunIds :
        /\ Succeeded(r1) /\ Succeeded(r2) /\ runs[r2].date = runs[r1].date + 1

\* the value is a string that is no time of day
InvalidTime(str) == ParseRaises(str) \/ ReplaceRaises(ParsedTime(str))

LeavesTop(t) == tasks[t].pc = "top" /\ tasks'[t].pc # "top"

\* C26: with any invalid auto_summary.time an iteration of the running loop
\* goes to sleep until the next 23:00.
C26_InvalidTimeUsesDefault ==
    [][\A t \in TaskIds :
          (LeavesTop(t) /\ is_running /\ InvalidTime(time_str)) =>
              /\ tasks'[t].pc = "sleeping"
              /\ tasks'[t].until = NextSchedule(clock, [hour |-> DefaultHour, minute |-> 0])]_vars

\* C26 for the strings the parse rejects (wrong separator, a part that is no
\* number): these do get 23:00
C26_UnparsableTimeUsesDefault ==
    [][\A t \in TaskIds :
          (LeavesTop(t) /\ is_running /\ ParseRaises(time_str)) =>
              /\ tasks'[t].pc = "sleeping"
              /\ tasks'[t].until = NextSchedule(clock, [hour |-> DefaultHour, minute |-> 0])]_vars

\* the task's latest invocation of summary_generator raised, on this date
FailedToday(t) ==
    \E r \in RunIds :
        /\ runs[r].task = t /\ runs[r].outcome = "raise" /\ runs[r].date = clock.day
        /\ \A r2 \in RunIds : runs[r2].task = t => r2 <= r

\* C27: a failed run does not end the loop and leaves last_execution_date
\* alone, and the iteration after the one-minute wait does not put the run
\* off to another day: it retries on the day of the failure.
C27_RetryAfterFailure ==
    [][\A t \in TaskIds :
          /\ (tasks[t].pc = "running" /\ tasks'[t].pc = "backoff") =>
                 last_execution_date' = last_execution_date
          /\ (tasks[t].pc = "backoff" /\ tasks'[t].pc # "backoff") => tasks'[t].pc = "top"
          /\ (LeavesTop(t) /\ FailedToday(t)) =>
                 /\ tasks'[t].pc = "sleeping"
                 /\ tasks'[t].until.day = clock.day]_vars

\* C27 without the retry: the loop goes on and last_execution_date is kept
C27_LoopSurvivesFailure ==
    [][\A t \in TaskIds :
          /\ (tasks[t].pc = "running" /\ tasks'[t].pc = "backoff") =>
                 last_execution_date' = last_execution_date
          /\ (tasks[t].pc = "backoff" /\ tasks'[t].pc # "backoff") => tasks'[t].pc = "top"
          /\ (LeavesTop(t) /\ FailedToday(t)) => tasks'[t].pc \in {"sleeping", "backoff"}]_vars


(***************************************************************************)
(* Claims about starting and stopping the scheduler.                       *)
(***************************************************************************)
\* C24: however many ON_START events are handled and however their handlers
\* interleave, at most one SummaryScheduler is constructed, start() is
\* called at most once and at most one _schedule_loop task exists.
C24_OneScheduler ==
    /\ constructed <= 1 /\ start_calls <= 1 /\ Len(tasks) <= 1
    /\ \A e \in DOMAIN handlers : handlers[e] # "fired" => scheduler_started
    /\ Cardinality({e \in DOMAIN handlers : handlers[e] = "starting"}) <= 1 - start_calls

\* every handler has returned, the one scheduler runs and has invoked the
\* generator
C24_Witness ==
    /\ \A e \in DOMAIN handlers : handlers[e] = "done"
    /\ Len(handlers) >= 2
    /\ constructed = 1 /\ start_calls = 1 /\ Len(tasks) = 1 /\ is_running
    /\ Len(runs) >= 1

\* every handler has returned and automatic summaries are disabled: no task
C24_WitnessDisabled ==
    /\ \A e \in DOMAIN handlers : handlers[e] = "done"
    /\ ~sched_enabled /\ constructed = 1 /\ start_calls = 1 /\ tasks = <<>>

LiveTasks == {t \in TaskIds : ~tasks[t].cancelled /\ tasks[t].pc # "ended"}

\* what holds of a stop() that has returned from awaiting a task: the task
\* was cancelled, has ended and has no run in progress
StoppedTasksEnded ==
    \A k \in DOMAIN stops :
        (stops[k].pc = "returned" /\ stops[k].task # 0) =>
            /\ tasks[stops[k].task].cancelled
            /\ tasks[stops[k].task].pc = "ended"
            /\ \A r \in RunIds : runs[r].task = stops[k].task => runs[r].outcome # "-"

\* an ended task invokes nothing, and a stop() on a scheduler that is not
\* running changes nothing
EndedIsFinal ==
    /\ \A t \in TaskIds : tasks[t].pc = "ended" =>
          /\ tasks'[t] = tasks[t]
          /\ \A r \in 1..Len(runs') : (r > Len(runs) => runs'[r].task # t)
    /\ \A k \in DOMAIN stops :
          (stops[k].pc = "idle" /\ stops'[k].pc = "returned" /\ ~is_running) =>
              UNCHANGED <<is_running, task, tasks, last_execution_date, runs>>

StopReturns(k) == stops[k].pc # "returned" /\ stops'[k].pc = "returned"

C28_WitnessSleeping ==
    /\ stops[1].pc = "returned" /\ stops[1].task = 1
    /\ stops[2].pc = "returned" /\ stops[2].task = 0
    /\ runs = <<>> /\ tasks[1].until # Midnight(0)


(***************************************************************************)
(* Claims about the daily run over several chats.                          *)
(***************************************************************************)
\* C30: whatever fails for one chat of the daily run, the loop goes on: the
\* run ends only after the last chat, returns normally, and every chat whose
\* processing raised is followed by the processing of the chats after it.
C30_ChatFailureIsolated ==
    /\ hpc = "daily_done" => /\ cur = chats
                             /\ result = [returned |-> TRUE, success |-> TRUE]
    /\ hpc \in {"daily_raised", "daily_fallback"} => cur \notin raised_in
    /\ \A c \in raised_in : c <= cur /\ (hpc = "daily_done" => c <= chats)
    /\ \A i \in 1..Len(outbox) : outbox[i].chat \notin raised_in \/ outbox[i].kind = "image"

\* the first chat's rendering and both of its sends raised; the second chat
\* got its image and the run returned
C30_Witness ==
    /\ hpc = "daily_done" /\ chats = 2 /\ raised_in = {1}
    /\ SentTo(1, "image") = {} /\ SentTo(1, "text") = {}
    /\ Cardinality(SentTo(2, "image")) = 1

(***************************************************************************)
(* Claims about the breaks _wrap_text places.                              *)
(***************************************************************************)
\* lines splits into consecutive groups, one per paragraph; in the group of a
\* paragraph that is not blank no line is empty, the lines concatenate to the
\* paragraph, and every line but the last, extended by the first character
\* of the line after it, is wider than max_width
RECURSIVE GreedyGroups(_, _)
GreedyGroups(lines, paragraphs) ==
    IF paragraphs = <<>> THEN lines = <<>>
    ELSE \E k \in 1..Len(lines) :
            /\ IF IsBlank(Head(paragraphs))
               THEN k = 1 /\ lines[1] = <<>>
               ELSE /\ \A i \in 1..k : lines[i] # <<>>
                    /\ Flatten(SubSeq(lines, 1, k)) = Head(paragraphs)
                    /\ \A i \in 1..(k - 1) :
                          TextWidth(wfont, lines[i] \o <<lines[i + 1][1]>>) > wmax
            /\ GreedyGroups(SubSeq(lines, k + 1, Len(lines)), Tail(paragraphs))

\* C29: _wrap_text wraps greedily, character by character: within a paragraph
\* every line it returns except the last is maximal (with the first character
\* of the following line added it is wider than max_width), so no break is
\* placed earlier than forced, and a break may fall between any two
\* characters.
C29_WrapIsGreedy ==
    wpc = "done" => GreedyGroups(wlines, SplitLines(wtext))

\* one paragraph broken between two letters, where no space is near
C29_Witness ==
    /\ wpc = "done" /\ wfont.face = "loose"
    /\ \A i \in 1..Len(wtext) : wtext[i] = "a"
    /\ Len(wlines) >= 2
    /\ TextWidth(wfont, wlines[1]) <= wmax

\* a paragraph with a space in it whose first line runs on past the space
C29_WitnessPastSpace ==
    /\ wpc = "done" /\ wfont.face = "loose"
    /\ Len(wlines) = 2 /\ Flatten(wlines) = wtext
    /\ \E i \in 1..(Len(wlines[1]) - 1) : wlines[1][i] = SPACE

====
